---- MODULE Spec2Model ----
(***************************************************************************)
(* Model of the minerva-library search aggregator                          *)
(* (app/services/aggregator.py, app/services/unpaywall.py,                 *)
(* app/api/search.py and the OpenAlex / CrossRef adapters).                *)
(*                                                                         *)
(* Representation of Python values                                         *)
(*   str            a sequence of one-character strings (titles, author    *)
(*                  names, abstracts, queries), or a sequence of tokens    *)
(*                  for DOIs and URLs (see the DOI section)                *)
(*   Optional[T]    <<>> for None, <<v>> for a value v                     *)
(*   List[T]        a sequence                                             *)
(*   SearchResult   a record with the fields of app/api/models.py          *)
(*   float scores   integers counting hundredths of a point                *)
(***************************************************************************)
EXTENDS Integers, Sequences, FiniteSets, TLC

(***************************************************************************)
(* Characters and the str methods / regular expressions the code uses      *)
(***************************************************************************)
UpperLetters == <<"A","B","C","D","E","F","G","H","I","J","K","L","M",
                  "N","O","P","Q","R","S","T","U","V","W","X","Y","Z">>

LowerLetters == <<"a","b","c","d","e","f","g","h","i","j","k","l","m",
                  "n","o","p","q","r","s","t","u","v","w","x","y","z">>

Digits == {"0","1","2","3","4","5","6","7","8","9"}

Range(s) == {s[i] : i \in DOMAIN s}

UpperSet == Range(UpperLetters)

\* the characters of the regex class \s
SpaceChars == {" ", "\t", "\n"}

\* the characters of the regex class \w
WordChars == UpperSet \cup Range(LowerLetters) \cup Digits \cup {"_"}

\* the lower-case letter of each upper-case letter
LowerOf == [c \in UpperSet |-> LowerLetters[CHOOSE i \in 1..26 : UpperLetters[i] = c]]

IsSpace(c) == c \in SpaceChars

IsWord(c) == c \in WordChars

\* Op(v) with v evaluated once: a local variable holding the value of v
Bind(v, Op(_)) == CHOOSE y \in {Op(x) : x \in {v}} : TRUE

\* str.lower() on one character
LowerChar(c) == IF c \in UpperSet THEN LowerOf[c] ELSE c

\* str.lower()
Lower(str) == Bind(str, LAMBDA s : [i \in 1..Len(s) |-> LowerChar(s[i])])

\* str.strip()
Strip(str) ==
    Bind(str, LAMBDA s :
        Bind({i \in 1..Len(s) : ~IsSpace(s[i])}, LAMBDA keep :
            IF keep = {} THEN <<>>
            ELSE SubSeq(s, CHOOSE i \in keep : \A j \in keep : i <= j,
                           CHOOSE i \in keep : \A j \in keep : i >= j)))

\* re.sub(r"\s+", " ", s): every maximal run of whitespace becomes one blank
CollapseWs(str) ==
    Bind(str, LAMBDA s :
        LET F[i \in 0..Len(s)] ==
                IF i = 0 THEN <<>>
                ELSE IF ~IsSpace(s[i]) THEN Append(F[i-1], s[i])
                ELSE IF i = 1 \/ ~IsSpace(s[i-1]) THEN Append(F[i-1], " ")
                ELSE F[i-1]
        IN  F[Len(s)])

\* re.sub(r"[^\w\s]", "", s)
RemovePunct(str) ==
    Bind(str, LAMBDA s :
        LET F[i \in 0..Len(s)] ==
                IF i = 0 THEN <<>>
                ELSE IF IsWord(s[i]) \/ IsSpace(s[i]) THEN Append(F[i-1], s[i]) ELSE F[i-1]
        IN  F[Len(s)])

\* re.sub(r"[^\w\s]", " ", s)
PunctToSpace(str) ==
    Bind(str, LAMBDA s :
        [i \in 1..Len(s) |-> IF IsWord(s[i]) \/ IsSpace(s[i]) THEN s[i] ELSE " "])

\* sub in s
Contains(str, substr) ==
    Bind(<<str, substr>>, LAMBDA v :
        \E i \in 1..(Len(v[1]) - Len(v[2]) + 1) : SubSeq(v[1], i, i + Len(v[2]) - 1) = v[2])

\* set(s.split()): the set of maximal runs of non-whitespace characters
SplitWords(str) ==
    Bind(str, LAMBDA s :
        Bind({i \in 1..Len(s) : ~IsSpace(s[i]) /\ (i = 1 \/ IsSpace(s[i-1]))}, LAMBDA starts :
            {SubSeq(s, i, CHOOSE j \in i..Len(s) :
                            /\ \A k \in i..j : ~IsSpace(s[k])
                            /\ (j = Len(s) \/ IsSpace(s[j+1]))) : i \in starts}))

Max(a, b) == IF a >= b THEN a ELSE b

Min(a, b) == IF a <= b THEN a ELSE b


(***************************************************************************)
(* Optional[T]                                                             *)
(***************************************************************************)
None == <<>>

Some(v) == <<v>>

\* Python truthiness of an Optional[str] / Optional[List]: neither None nor empty
Truthy(o) == o # None /\ o[1] # <<>>

\* Python truthiness of an Optional[int]: neither None nor 0
TruthyInt(o) == o # None /\ o[1] # 0

\* the expression (o or "") for an Optional[str]
OrEmpty(o) == IF Truthy(o) THEN o[1] ELSE <<>>

\* the expression (o or 0) for an Optional[int]
OrZero(o) == IF TruthyInt(o) THEN o[1] ELSE 0

(***************************************************************************)
(* DOIs, URLs, ids and source names are strings whose atoms are either     *)
(* single characters or one of the multi-character chunks below; every     *)
(* substring the code tests or replaces is one chunk.                      *)
(***************************************************************************)
HttpsDoiOrg == "https://doi.org/"

HttpDxDoiOrg == "http://dx.doi.org/"

HttpDoiOrg == "http://doi.org/"

HttpsDxDoiOrg == "https://dx.doi.org/"

UpperHttpsDxDoiOrg == "HTTPS://DX.DOI.ORG/"

UpperHttpsDoiOrg == "HTTPS://DOI.ORG/"

\* str.lower() on one atom
LowerAtom(c) ==
    CASE c = UpperHttpsDxDoiOrg -> HttpsDxDoiOrg
      [] c = UpperHttpsDoiOrg -> HttpsDoiOrg
      [] OTHER -> LowerChar(c)

LowerAtoms(str) == Bind(str, LAMBDA s : [i \in 1..Len(s) |-> LowerAtom(s[i])])

\* s.replace(chunk, "")
RemoveChunk(str, chunk) ==
    Bind(str, LAMBDA s :
        LET F[i \in 0..Len(s)] ==
                IF i = 0 THEN <<>>
                ELSE IF s[i] = chunk THEN F[i-1] ELSE Append(F[i-1], s[i])
        IN  F[Len(s)])

\* "doi.org" in s.lower()
HasDoiOrg(s) ==
    \E i \in 1..Len(s) : LowerAtom(s[i]) \in {HttpsDoiOrg, HttpDxDoiOrg, HttpDoiOrg, HttpsDxDoiOrg}

\* (".pdf" in s.lower()) or ("pdf" in s.lower())
HasPdf(s) == Contains(LowerAtoms(s), <<".", "p", "d", "f">>) \/ Contains(LowerAtoms(s), <<"p", "d", "f">>)

_normalize_doi(doi) ==
    IF ~Truthy(doi) THEN None
    ELSE LET d0 == Strip(doi[1])
         IN  IF d0 = <<>> THEN None
             ELSE LET d1 == RemoveChunk(RemoveChunk(d0, HttpsDoiOrg), HttpDxDoiOrg)
                      d2 == RemoveChunk(d1, HttpDoiOrg)
                      d3 == LowerAtoms(Strip(d2))
                  IN  IF d3 = <<>> THEN None ELSE Some(d3)

Untitled == <<"U","n","t","i","t","l","e","d">>

untitled == Lower(Untitled)

_normalize_title(title) ==
    IF ~Truthy(title) THEN None
    ELSE LET t0 == Lower(Strip(title[1]))
         IN  IF t0 = <<>> \/ t0 = untitled THEN None
             ELSE LET t1 == CollapseWs(t0)
                      t2 == RemovePunct(t1)
                      t3 == Strip(t2)
                  IN  IF t3 = <<>> THEN None ELSE Some(t3)

(***************************************************************************)
(* difflib.SequenceMatcher(None, a, b).ratio() for sequences shorter than  *)
(* 200 elements (no junk, no autojunk). A ratio is the pair <<2*M, T>> of  *)
(* its numerator and denominator, compared by cross-multiplication.        *)
(***************************************************************************)
\* length of the common run of a from i and b from j inside a[..ahi], b[..bhi]
RunLen(a, b, i, j, ahi, bhi) ==
    LET lim == Min(ahi - i + 1, bhi - j + 1)
    IN  CHOOSE k \in 0..lim :
            /\ \A d \in 0..(k-1) : a[i+d] = b[j+d]
            /\ (k = lim \/ a[i+k] # b[j+k])

\* find_longest_match: the longest block, earliest in a, then earliest in b;
\* <<i, j, k>> with k = 0 when a[alo..ahi] and b[blo..bhi] share no element
FindLongestMatch(a, b, alo, ahi, blo, bhi) ==
    Bind({<<p[1], p[2], RunLen(a, b, p[1], p[2], ahi, bhi)>> :
            p \in {q \in (alo..ahi) \X (blo..bhi) : a[q[1]] = b[q[2]]}},
         LAMBDA blocks :
            IF blocks = {} THEN <<alo, blo, 0>>
            ELSE CHOOSE m \in blocks :
                    \A n \in blocks :
                        \/ m[3] > n[3]
                        \/ /\ m[3] = n[3]
                           /\ \/ m[1] < n[1]
                              \/ (m[1] = n[1] /\ m[2] <= n[2]))

RECURSIVE MatchCount(_, _, _, _, _, _)
\* the sum of the block sizes of get_matching_blocks
MatchCount(a, b, alo, ahi, blo, bhi) ==
    IF alo > ahi \/ blo > bhi THEN 0
    ELSE Bind(FindLongestMatch(a, b, alo, ahi, blo, bhi),
              LAMBDA m :
                IF m[3] = 0 THEN 0
                ELSE m[3] + MatchCount(a, b, alo, m[1] - 1, blo, m[2] - 1)
                          + MatchCount(a, b, m[1] + m[3], ahi, m[2] + m[3], bhi))

_calculate_similarity(str1, str2) ==
    Bind(<<str1, str2>>,
         LAMBDA ab :
            LET T == Len(ab[1]) + Len(ab[2])
            IN  IF T = 0 THEN <<1, 1>>
                ELSE <<2 * MatchCount(ab[1], ab[2], 1, Len(ab[1]), 1, Len(ab[2])), T>>)

\* r1 > r2 for two ratios
RatioGT(r1, r2) == r1[1] * r2[2] > r2[1] * r1[2]

\* the merge threshold 0.92 as a fraction
ThresholdNum == 92

ThresholdDen == 100

\* r >= 0.92
AtLeastThreshold(r) == r[1] * ThresholdDen >= ThresholdNum * r[2]

(***************************************************************************)
(* SearchResult (app/api/models.py). An author is its name: the OpenAlex   *)
(* and CrossRef adapters and the merge build Author(name=...) only.        *)
(***************************************************************************)
SearchResult(id, title, authors, abstract, publication_year, source, doi, url, is_open_access, open_access_url, cited_by_count, relevance_score) ==
    [id |-> id, title |-> title, authors |-> authors, abstract |-> abstract,
     publication_year |-> publication_year, source |-> source, doi |-> doi,
     url |-> url, is_open_access |-> is_open_access,
     open_access_url |-> open_access_url, cited_by_count |-> cited_by_count,
     relevance_score |-> relevance_score]

Unknown == <<"unknown">>

OpenAlexName == <<"OpenAlex">>

CrossRefName == <<"CrossRef">>

UnpaywallName == <<"Unpaywall">>

\* the priority of a source no table entry names
DefaultPriority == 99

_source_priority(source) ==
    CASE source = OpenAlexName -> 0
      [] source = CrossRefName -> 1
      [] source = UnpaywallName -> 2
      [] OTHER -> DefaultPriority

\* s.split("+"), each piece stripped, the empty pieces dropped, as a set
SourcePieces(s) ==
    LET cuts == {0, Len(s) + 1} \cup {i \in 1..Len(s) : s[i] = "+"}
        pieces == {Strip(SubSeq(s, p[1] + 1, p[2] - 1)) : p \in
                    {q \in cuts \X cuts :
                        q[1] < q[2] /\ \A k \in cuts : ~(q[1] < k /\ k < q[2])}}
    IN  pieces \ {<<>>}

RECURSIVE SortedByPriority(_)
\* sorted(parts, key=self._source_priority); parts is a set, so sources of equal
\* priority come out in an order the code does not fix
SortedByPriority(parts) ==
    IF parts = {} THEN <<>>
    ELSE LET first == CHOOSE x \in parts :
                        \A y \in parts : _source_priority(x) <= _source_priority(y)
         IN  <<first>> \o SortedByPriority(parts \ {first})

RECURSIVE JoinPlus(_)
\* "+".join(pieces)
JoinPlus(pieces) ==
    IF pieces = <<>> THEN <<>>
    ELSE IF Len(pieces) = 1 THEN pieces[1]
    ELSE pieces[1] \o <<"+">> \o JoinPlus(Tail(pieces))

\* _combine_sources keeping the first source only
_combine_sources_First(a, b) ==
    IF a # <<>> THEN a ELSE b

_combine_sources(a, b) ==
    LET parts == SourcePieces(a) \cup SourcePieces(b)
    IN  IF parts # {} THEN JoinPlus(SortedByPriority(parts))
        ELSE IF a # <<>> THEN a ELSE b

_prefer_url(a, b) ==
    IF ~Truthy(a) THEN b
    ELSE IF ~Truthy(b) THEN a
    ELSE LET a_pdf == HasPdf(a[1])
             b_pdf == HasPdf(b[1])
             a_doi == HasDoiOrg(a[1])
             b_doi == HasDoiOrg(b[1])
         IN  IF a_pdf /\ ~b_pdf THEN a
             ELSE IF b_pdf /\ ~a_pdf THEN b
             ELSE IF a_doi /\ ~b_doi THEN a
             ELSE IF b_doi /\ ~a_doi THEN b
             ELSE a

\* how many authors of each side the merge reads, and how many it keeps
AuthorsRead == 10

AuthorsKept == 5

\* re.sub(r"\s+", " ", (a.name or "").strip().lower())
AuthorKey(name) == CollapseWs(Lower(Strip(name)))

\* the union of the two author lists by normalized name, first spelling kept
MergedAuthors(primary, secondary) ==
    LET all == SubSeq(primary.authors, 1, Min(Len(primary.authors), AuthorsRead))
               \o SubSeq(secondary.authors, 1, Min(Len(secondary.authors), AuthorsRead))
        F[i \in 0..Len(all)] ==
            IF i = 0 THEN <<>>
            ELSE Bind(F[i-1],
                      LAMBDA names_so_far :
                        LET key == AuthorKey(all[i])
                        IN  IF key # <<>> /\ \A j \in 1..Len(names_so_far) :
                                                AuthorKey(names_so_far[j]) # key
                            THEN Append(names_so_far, Strip(all[i]))
                            ELSE names_so_far)
        names == F[Len(all)]
        merged_authors == SubSeq(names, 1, Min(Len(names), AuthorsKept))
    IN  IF merged_authors # <<>> THEN merged_authors ELSE secondary.authors

\* t and t.strip() and t.strip().lower() != "untitled"
IsTitleCandidate(t) == t # <<>> /\ Strip(t) # <<>> /\ Lower(Strip(t)) # untitled

MergedTitle(primary, secondary) ==
    LET p == IsTitleCandidate(primary.title)
        s == IsTitleCandidate(secondary.title)
    IN  IF p /\ s
        THEN IF Len(Strip(primary.title)) >= Len(Strip(secondary.title))
             THEN primary.title ELSE secondary.title
        ELSE IF p THEN primary.title
        ELSE IF s THEN secondary.title
        ELSE IF primary.title # <<>> THEN primary.title
        ELSE IF secondary.title # <<>> THEN secondary.title
        ELSE Untitled

\* _merge_results, the merged record given a relevance_score other than 0
_merge_results_Scored(base, incoming) ==
    LET swap == _source_priority(incoming.source) < _source_priority(base.source)
        primary == IF swap THEN incoming ELSE base
        secondary == IF swap THEN base ELSE incoming
        abs_a == OrEmpty(primary.abstract)
        abs_b == OrEmpty(secondary.abstract)
        merged_abstract == IF Len(abs_a) >= Len(abs_b) THEN abs_a ELSE abs_b
        pdoi == _normalize_doi(primary.doi)
        doi == IF Truthy(pdoi) THEN pdoi ELSE _normalize_doi(secondary.doi)
        year == IF TruthyInt(primary.publication_year) /\ TruthyInt(secondary.publication_year)
                THEN Some(Max(primary.publication_year[1], secondary.publication_year[1]))
                ELSE IF TruthyInt(primary.publication_year) THEN primary.publication_year
                ELSE secondary.publication_year
        oa_url == _prefer_url(primary.open_access_url, secondary.open_access_url)
        url0 == _prefer_url(primary.url, secondary.url)
        url == IF Truthy(oa_url) THEN oa_url
               ELSE IF Truthy(doi)
                    THEN IF Truthy(url0) THEN url0 ELSE Some(<<HttpsDoiOrg>> \o doi[1])
                    ELSE url0
    IN  SearchResult(
            IF primary.id # <<>> /\ primary.id # Unknown THEN primary.id
            ELSE IF secondary.id # <<>> THEN secondary.id ELSE Unknown,
            MergedTitle(primary, secondary),
            MergedAuthors(primary, secondary),
            IF merged_abstract # <<>> THEN Some(merged_abstract) ELSE None,
            year,
            _combine_sources(primary.source, secondary.source),
            doi,
            url,
            primary.is_open_access \/ secondary.is_open_access,
            oa_url,
            Some(Max(OrZero(primary.cited_by_count), OrZero(secondary.cited_by_count))),
            1)

_merge_results(base, incoming) ==
    LET swap == _source_priority(incoming.source) < _source_priority(base.source)
        primary == IF swap THEN incoming ELSE base
        secondary == IF swap THEN base ELSE incoming
        abs_a == OrEmpty(primary.abstract)
        abs_b == OrEmpty(secondary.abstract)
        merged_abstract == IF Len(abs_a) >= Len(abs_b) THEN abs_a ELSE abs_b
        pdoi == _normalize_doi(primary.doi)
        doi == IF Truthy(pdoi) THEN pdoi ELSE _normalize_doi(secondary.doi)
        year == IF TruthyInt(primary.publication_year) /\ TruthyInt(secondary.publication_year)
                THEN Some(Max(primary.publication_year[1], secondary.publication_year[1]))
                ELSE IF TruthyInt(primary.publication_year) THEN primary.publication_year
                ELSE secondary.publication_year
        oa_url == _prefer_url(primary.open_access_url, secondary.open_access_url)
        url0 == _prefer_url(primary.url, secondary.url)
        url == IF Truthy(oa_url) THEN oa_url
               ELSE IF Truthy(doi)
                    THEN IF Truthy(url0) THEN url0 ELSE Some(<<HttpsDoiOrg>> \o doi[1])
                    ELSE url0
    IN  SearchResult(
            IF primary.id # <<>> /\ primary.id # Unknown THEN primary.id
            ELSE IF secondary.id # <<>> THEN secondary.id ELSE Unknown,
            MergedTitle(primary, secondary),
            MergedAuthors(primary, secondary),
            IF merged_abstract # <<>> THEN Some(merged_abstract) ELSE None,
            year,
            _combine_sources(primary.source, secondary.source),
            doi,
            url,
            primary.is_open_access \/ secondary.is_open_access,
            oa_url,
            Some(Max(OrZero(primary.cited_by_count), OrZero(secondary.cited_by_count))),
            0)

(***************************************************************************)
(* _deduplicate. A dict is the sequence of its <<key, value>> items in     *)
(* insertion order.                                                        *)
(***************************************************************************)
\* the position of key in the dict, 0 when it is absent
DictIndex(d, key) ==
    IF \E i \in 1..Len(d) : d[i][1] = key
    THEN CHOOSE i \in 1..Len(d) : d[i][1] = key
    ELSE 0

\* d[key] = value
DictSet(d, key, value) ==
    Bind(d, LAMBDA dict :
        LET i == DictIndex(dict, key)
        IN  IF i = 0 THEN Append(dict, <<key, value>>)
            ELSE [dict EXCEPT ![i] = <<key, value>>])

\* list(d.values())
DictValues(d) == [i \in 1..Len(d) |-> d[i][2]]

\* one iteration of the first loop
DoiStep(doi_groups, no_doi, r) ==
    Bind(_normalize_doi(r.doi),
         LAMBDA doi_norm :
            IF Truthy(doi_norm)
            THEN LET k == DictIndex(doi_groups, doi_norm[1])
                 IN  <<DictSet(doi_groups, doi_norm[1],
                               IF k # 0 THEN _merge_results(doi_groups[k][2], r) ELSE r),
                       no_doi>>
            ELSE <<doi_groups, Append(no_doi, r)>>)

\* the first loop: <<doi_groups, no_doi>>
MergeByDoi(results) ==
    LET F[i \in 0..Len(results)] ==
            IF i = 0 THEN <<<<>>, <<>>>>
            ELSE Bind(F[i-1], LAMBDA acc : DoiStep(acc[1], acc[2], results[i]))
    IN  F[Len(results)]

\* the fuzzy scan: <<best_key, best_sim>>, best_key None when no key scored above 0
BestMatch(title_norm, title_keys) ==
    LET F[i \in 0..Len(title_keys)] ==
            IF i = 0 THEN <<None, <<0, 1>>>>
            ELSE Bind(<<F[i-1], _calculate_similarity(title_norm, title_keys[i])>>,
                      LAMBDA v : IF RatioGT(v[2], v[1][2])
                                 THEN <<Some(title_keys[i]), v[2]>> ELSE v[1])
    IN  F[Len(title_keys)]

\* one iteration of the second loop
TitleStep(title_groups, title_keys, untitled_list, r) ==
    Bind(_normalize_title(Some(r.title)),
         LAMBDA title_norm :
            IF ~Truthy(title_norm)
            THEN <<title_groups, title_keys, Append(untitled_list, r)>>
            ELSE IF DictIndex(title_groups, title_norm[1]) # 0
            THEN <<DictSet(title_groups, title_norm[1],
                           _merge_results(
                               title_groups[DictIndex(title_groups, title_norm[1])][2], r)),
                   title_keys, untitled_list>>
            ELSE Bind(BestMatch(title_norm[1], title_keys),
                      LAMBDA best :
                        \* best = <<best_key, best_sim>>
                        IF Truthy(best[1]) /\ AtLeastThreshold(best[2])
                        THEN <<DictSet(title_groups, best[1][1],
                                       _merge_results(
                                           title_groups[DictIndex(title_groups, best[1][1])][2], r)),
                               title_keys, untitled_list>>
                        ELSE <<DictSet(title_groups, title_norm[1], r),
                               Append(title_keys, title_norm[1]), untitled_list>>))

\* the second loop: <<title_groups, title_keys, untitled>>
MergeByTitle(no_doi) ==
    LET F[i \in 0..Len(no_doi)] ==
            IF i = 0 THEN <<<<>>, <<>>, <<>>>>
            ELSE Bind(F[i-1], LAMBDA acc : TitleStep(acc[1], acc[2], acc[3], no_doi[i]))
    IN  F[Len(no_doi)]

\* _deduplicate ending with no_doi where the code has untitled
_deduplicate_AppendingNoDoi(results) ==
    IF results = <<>> THEN <<>>
    ELSE Bind(MergeByDoi(results),
              LAMBDA byDoi :
                Bind(MergeByTitle(byDoi[2]),
                     LAMBDA byTitle :
                        DictValues(byDoi[1]) \o DictValues(byTitle[1]) \o byDoi[2]))

_deduplicate(results) ==
    IF results = <<>> THEN <<>>
    ELSE Bind(MergeByDoi(results),
              LAMBDA byDoi :
                Bind(MergeByTitle(byDoi[2]),
                     LAMBDA byTitle :
                        DictValues(byDoi[1]) \o DictValues(byTitle[1]) \o byTitle[3]))

(***************************************************************************)
(* _rank_results. A score is an integer number of hundredths of a point,   *)
(* which is what round(score, 2) keeps.                                    *)
(***************************************************************************)
StopWords ==
    {<<"t","h","e">>, <<"a">>, <<"a","n">>, <<"o","f">>, <<"a","n","d">>, <<"o","r">>,
     <<"t","o">>, <<"i","n">>, <<"o","n">>, <<"f","o","r">>, <<"w","i","t","h">>,
     <<"b","y">>, <<"f","r","o","m">>, <<"a","t">>, <<"a","s">>}

\* the scoring weights, in points
OpenAccessBonus == 60

OpenAccessUrlBonus == 10

RecentYear == 2023

RecentBonus == 30

MidYear == 2020

MidBonus == 20

OlderYear == 2015

OlderBonus == 10

DoiBonus == 8

CitationDivisor == 10

CitationCap == 20

TitleWordBonus == 12

TitlePhraseBonus == 40

CoverageWeight == 20

SimilarityWeight == 15

AbstractWordBonus == 4

AbstractPhraseBonus == 10

UntitledPenalty == 20

\* n/d rounded to the nearest integer, halves to the even neighbour (d > 0)
RoundHalfEven(n, d) ==
    LET q == n \div d
        r == n % d
    IN  IF 2 * r < d THEN q
        ELSE IF 2 * r > d THEN q + 1
        ELSE IF q % 2 = 0 THEN q ELSE q + 1

\* q_norm: the query lower-cased, punctuation turned into blanks, whitespace collapsed
QueryNorm(query) == Strip(CollapseWs(PunctToSpace(Lower(Strip(query)))))

\* query_words: the words of q_norm that are no stop words
QueryWords(query) == SplitWords(QueryNorm(query)) \ StopWords

\* title_norm: self._normalize_title(title) or ""
RankTitleNorm(result) ==
    Bind(_normalize_title(Some(Strip(result.title))),
         LAMBDA tn : IF Truthy(tn) THEN tn[1] ELSE <<>>)

\* abstract_norm
RankAbstractNorm(result) ==
    IF Truthy(result.abstract)
    THEN Strip(CollapseWs(PunctToSpace(Lower(result.abstract[1]))))
    ELSE <<>>

\* CitationPoints without the cap
CitationPoints_Uncapped(result) ==
    IF TruthyInt(result.cited_by_count)
    THEN (100 * result.cited_by_count[1]) \div CitationDivisor
    ELSE 0

\* if result.cited_by_count: score += min(result.cited_by_count / 10, 20),
\* in hundredths of a point
CitationPoints(result) ==
    IF TruthyInt(result.cited_by_count)
    THEN Min((100 * result.cited_by_count[1]) \div CitationDivisor, 100 * CitationCap)
    ELSE 0

\* the score of one result from q_norm, query_words, title_norm and
\* abstract_norm, in hundredths of a point
ScoreOf(result, q_norm, query_words, title_norm, abstract_norm) ==
    LET oa == (IF result.is_open_access THEN OpenAccessBonus ELSE 0)
              + (IF Truthy(result.open_access_url) THEN OpenAccessUrlBonus ELSE 0)
        year == IF TruthyInt(result.publication_year)
                THEN IF result.publication_year[1] >= RecentYear THEN RecentBonus
                     ELSE IF result.publication_year[1] >= MidYear THEN MidBonus
                     ELSE IF result.publication_year[1] >= OlderYear THEN OlderBonus
                     ELSE 0
                ELSE 0
        doi == IF Truthy(result.doi) THEN DoiBonus ELSE 0
        cites == CitationPoints(result)
        useTitle == title_norm # <<>> /\ query_words # {}
        useAbs == abstract_norm # <<>> /\ query_words # {}
        absPts == IF useAbs
                  THEN Cardinality(query_words \cap SplitWords(abstract_norm)) * AbstractWordBonus
                       + (IF q_norm # <<>> /\ Contains(abstract_norm, q_norm)
                          THEN AbstractPhraseBonus ELSE 0)
                  ELSE 0
        penalty == IF Lower(Strip(result.title)) = untitled THEN UntitledPenalty ELSE 0
        nq == Max(Cardinality(query_words), 1)
    IN  Bind(100 * (oa + year + doi + absPts - penalty) + cites,
             LAMBDA rest :
                IF useTitle
                THEN Bind(<<Cardinality(query_words \cap SplitWords(title_norm)),
                            _calculate_similarity(q_norm, title_norm)>>,
                          LAMBDA v :
                            \* v = <<matches, similarity>>; the sum
                            \*   rest + 100 * (matches * 12 + phrase + coverage * 20 + similarity * 15)
                            \* over the denominator nq * v[2][2]
                            LET titlePts == v[1] * TitleWordBonus
                                            + (IF q_norm # <<>> /\ Contains(title_norm, q_norm)
                                               THEN TitlePhraseBonus ELSE 0)
                            IN  RoundHalfEven(
                                    (rest + 100 * titlePts) * nq * v[2][2]
                                      + 100 * CoverageWeight * v[1] * v[2][2]
                                      + 100 * SimilarityWeight * v[2][1] * nq,
                                    nq * v[2][2]))
                ELSE rest)

\* the score of one result, in hundredths of a point
Score(result, q) ==
    Bind(<<QueryNorm(q), QueryWords(q), RankTitleNorm(result), RankAbstractNorm(result)>>,
         LAMBDA v : ScoreOf(result, v[1], v[2], v[3], v[4]))

\* SortedByScore with equal scores in reverse input order
SortedByScore_TiesReversed(xs) ==
    LET pos(i) == Cardinality({j \in 1..Len(xs) : xs[j].relevance_score > xs[i].relevance_score})
                  + Cardinality({j \in (i+1)..Len(xs) : xs[j].relevance_score = xs[i].relevance_score})
                  + 1
    IN  [k \in 1..Len(xs) |-> xs[CHOOSE i \in 1..Len(xs) : pos(i) = k]]

\* sorted(xs, key=lambda x: x.relevance_score, reverse=True): stable, descending
SortedByScore(xs) ==
    LET pos(i) == Cardinality({j \in 1..Len(xs) : xs[j].relevance_score > xs[i].relevance_score})
                  + Cardinality({j \in 1..(i-1) : xs[j].relevance_score = xs[i].relevance_score})
                  + 1
    IN  [k \in 1..Len(xs) |-> xs[CHOOSE i \in 1..Len(xs) : pos(i) = k]]

_rank_results(results, q) ==
    Bind([i \in 1..Len(results) |->
            [results[i] EXCEPT !.relevance_score = Score(results[i], q)]],
         LAMBDA scored : SortedByScore(scored))

(***************************************************************************)
(* The provider adapters at their boundary: what OpenAlexService.search    *)
(* and CrossRefService.search hand to the aggregator. The catalogues hold  *)
(* records as _parse_work builds them.                                     *)
(***************************************************************************)
Doi1Lower == <<"1","0",".","1","/","x">>

Doi1Upper == <<"1","0",".","1","/","X">>

Doi2 == <<"1","0",".","2","/","y">>

Doi3 == <<"1","0",".","3","/","z">>

PdfUrl == <<"https://host.org/", "x", ".", "p", "d", "f">>

LandingUrl == <<"https://host.org/", "x">>

TitleGeneNetworks == <<"G","e","n","e"," ","n","e","t","w","o","r","k","s">>

TitleGeneNetworksDot == <<"G","e","n","e"," ","N","e","t","w","o","r","k","s",".">>

TitleGeneNetwork == <<"G","e","n","e"," ","n","e","t","w","o","r","k">>

TitleSoil == <<"S","o","i","l">>

NameALi == <<"A"," ","L","i">>

NameALiSpaced == <<"a"," "," ","l","i">>

NameBWu == <<"B"," ","W","u">>

NameCXu == <<"C"," ","X","u">>

UnknownAuthor == <<"U","n","k","n","o","w","n"," ","A","u","t","h","o","r">>

\* OpenAlexService._parse_work: source "OpenAlex", the DOI without its
\* https://doi.org/ prefix, url = the work's doi or id
OpenAlexCatalogue ==
    << SearchResult(<<"https://openalex.org/", "W", "1">>, TitleGeneNetworks, <<NameALi>>, None,
                    Some(2024), OpenAlexName, Some(Doi1Lower), Some(<<HttpsDoiOrg>> \o Doi1Lower),
                    TRUE, Some(PdfUrl), Some(1000), 0),
       SearchResult(<<"https://openalex.org/", "W", "2">>, TitleSoil, <<NameCXu>>,
                    Some(<<"s","o","i","l"," ","g","e","n","e">>),
                    Some(2021), OpenAlexName, Some(Doi2), Some(<<HttpsDoiOrg>> \o Doi2),
                    FALSE, None, Some(10), 0),
       SearchResult(<<"https://openalex.org/", "W", "3">>, TitleGeneNetwork, <<NameBWu>>, None,
                    Some(2014), OpenAlexName, None, Some(<<"https://openalex.org/", "W", "3">>),
                    FALSE, None, Some(0), 0) >>

\* CrossRefService._parse_work: source "CrossRef", id = the DOI or "unknown",
\* never open access, url = https://doi.org/{doi} or None
CrossRefCatalogue ==
    << SearchResult(Doi1Upper, TitleGeneNetworksDot, <<NameALiSpaced, NameBWu>>, None,
                    Some(2023), CrossRefName, Some(Doi1Upper), Some(<<HttpsDoiOrg>> \o Doi1Upper),
                    FALSE, None, Some(5), 0),
       SearchResult(Doi3, Untitled, <<UnknownAuthor>>, None,
                    None, CrossRefName, Some(Doi3), Some(<<HttpsDoiOrg>> \o Doi3),
                    FALSE, None, Some(0), 0),
       SearchResult(Unknown, TitleGeneNetworks, <<NameALi>>, None,
                    Some(2020), CrossRefName, None, None,
                    FALSE, None, Some(250), 0) >>

\* db_names, in the order of the tasks list
db_names == <<"OpenAlex", "CrossRef">>

Providers == 1..Len(db_names)

Catalogue(p) == IF db_names[p] = "OpenAlex" THEN OpenAlexCatalogue ELSE CrossRefCatalogue

\* the most records one provider returns in one call
MaxPerProvider == 2

\* how many more matches than the page holds a provider reports in its count
ServerExtra == 7

\* the per-operation httpx timeout (30.0 s), in clock ticks
TimeoutTicks == 2

\* the pages a provider can return: the sequences of distinct catalogue records
Pages(p) ==
    UNION {{[i \in 1..n |-> Catalogue(p)[f[i]]] :
                f \in {g \in [1..n -> 1..Len(Catalogue(p))] :
                            \A i, j \in 1..n : i # j => g[i] # g[j]}} :
           n \in 0..MaxPerProvider}

\* an exception instance among the results of gather(return_exceptions=True)
Raised == [raised |-> TRUE]

\* the except branches of search: return [], 0
FaultResult == [raised |-> FALSE, pair |-> <<<<>>, Some(0)>>]

\* what one adapter call can hand to gather:
\*   a pair <<records, count>> parsed from the answer (the count is the
\*   provider's number of matches, None when the answer's count is null),
\*   <<<<>>, Some(0)>> from the except branches,
\*   or an exception that escaped the adapter
SearchOutcomes(p) ==
    UNION {{[raised |-> FALSE, pair |-> <<recs, count>>] :
                count \in {Some(Len(recs) + ServerExtra), None}} :
           recs \in Pages(p)}
    \cup {FaultResult, Raised}

Queries == {<<"G","e","n","e"," ","n","e","t","w","o","r","k","s">>,
            <<"t","h","e"," ","S","o","i","l","!">>}

(***************************************************************************)
(* UnpaywallService.enrich_with_oa                                         *)
(***************************************************************************)
\* what one _check_doi_oa call returns: None (404, or any fault), or the dict
\* built from the answer, of which the caller reads is_oa and oa_url
OaAnswers ==
    {None,
     Some([is_oa |-> TRUE, oa_url |-> Some(PdfUrl)]),
     Some([is_oa |-> FALSE, oa_url |-> None])}

\* results_to_check, as the positions in results of the records it holds
ResultsToCheck(results) ==
    LET F[i \in 0..Len(results)] ==
            IF i = 0 THEN <<>>
            ELSE IF Truthy(results[i].doi) /\ ~results[i].is_open_access
                 THEN Append(F[i-1], i) ELSE F[i-1]
    IN  F[Len(results)]

\* enrich_with_oa giving up, the results as they were, when a lookup failed
enrich_with_oa_AllOrNothing(results, oa_info_list) ==
    Bind(ResultsToCheck(results),
         LAMBDA to_check :
            LET D[i \in 0..Len(to_check)] ==
                    IF i = 0 THEN <<>>
                    ELSE DictSet(D[i-1], results[to_check[i]].doi[1], oa_info_list[i][1])
                update(r, doi_to_oa) ==
                    IF r.doi # None /\ DictIndex(doi_to_oa, r.doi[1]) # 0
                    THEN LET oa_info == doi_to_oa[DictIndex(doi_to_oa, r.doi[1])][2]
                         IN  [r EXCEPT !.is_open_access = oa_info.is_oa,
                                       !.open_access_url = oa_info.oa_url]
                    ELSE r
            IN  IF to_check = <<>> \/ \E i \in 1..Len(to_check) : oa_info_list[i] = None
                THEN results
                ELSE Bind(D[Len(to_check)],
                          LAMBDA doi_to_oa :
                            [i \in 1..Len(results) |-> update(results[i], doi_to_oa)]))

\* enrich_with_oa, given the answer of each lookup in oa_info_list
enrich_with_oa(results, oa_info_list) ==
    Bind(ResultsToCheck(results),
         LAMBDA to_check :
            LET D[i \in 0..Len(to_check)] ==
                    IF i = 0 THEN <<>>
                    ELSE IF oa_info_list[i] # None
                         THEN DictSet(D[i-1], results[to_check[i]].doi[1], oa_info_list[i][1])
                         ELSE D[i-1]
                update(r, doi_to_oa) ==
                    IF r.doi # None /\ DictIndex(doi_to_oa, r.doi[1]) # 0
                    THEN LET oa_info == doi_to_oa[DictIndex(doi_to_oa, r.doi[1])][2]
                         IN  [r EXCEPT !.is_open_access = oa_info.is_oa,
                                       !.open_access_url = oa_info.oa_url]
                    ELSE r
            IN  IF to_check = <<>> THEN results
                ELSE Bind(D[Len(to_check)],
                          LAMBDA doi_to_oa :
                            [i \in 1..Len(results) |-> update(results[i], doi_to_oa)]))

(***************************************************************************)
(* SearchAggregator.search_all                                             *)
(***************************************************************************)
UnpaywallEntry == "Unpaywall (OA enrichment)"

\* sum(1 for r in results if r.is_open_access)
CountOpenAccess(results) == Cardinality({i \in 1..Len(results) : results[i].is_open_access})

\* Combine without the isinstance(result, Exception) test: an exception among
\* the results is unpacked like a pair, which raises
Combine_NoExceptionTest(results) ==
    LET F[i \in 0..Len(results)] ==
            IF i = 0
            THEN [raised |-> FALSE, all_results |-> <<>>, total_count |-> 0, databases |-> <<>>]
            ELSE Bind(F[i-1],
                      LAMBDA acc :
                        LET result == results[i]
                        IN  IF acc.raised THEN acc
                            ELSE IF result.raised THEN [acc EXCEPT !.raised = TRUE]
                            ELSE IF result.pair[2] = None THEN [acc EXCEPT !.raised = TRUE]
                            ELSE [raised |-> FALSE,
                                  all_results |-> acc.all_results \o result.pair[1],
                                  total_count |-> acc.total_count + result.pair[2][1],
                                  databases |-> IF result.pair[1] # <<>>
                                                THEN Append(acc.databases, db_names[i])
                                                ELSE acc.databases])
    IN  F[Len(results)]

\* the loop over the results of gather: the exceptions are skipped; adding a
\* count that is no number raises TypeError, which nothing in search_all catches
Combine(results) ==
    LET F[i \in 0..Len(results)] ==
            IF i = 0
            THEN [raised |-> FALSE, all_results |-> <<>>, total_count |-> 0, databases |-> <<>>]
            ELSE Bind(F[i-1],
                      LAMBDA acc :
                        LET result == results[i]
                        IN  IF acc.raised \/ result.raised THEN acc
                            ELSE IF result.pair[2] = None THEN [acc EXCEPT !.raised = TRUE]
                            ELSE [raised |-> FALSE,
                                  all_results |-> acc.all_results \o result.pair[1],
                                  total_count |-> acc.total_count + result.pair[2][1],
                                  databases |-> IF result.pair[1] # <<>>
                                                THEN Append(acc.databases, db_names[i])
                                                ELSE acc.databases])
    IN  F[Len(results)]

\* OpenAccessFilter with the filter left out
OpenAccessFilter_Omitted(deduplicated, oa_only) == deduplicated

\* if open_access_only: deduplicated = [r for r in deduplicated if r.is_open_access]
OpenAccessFilter(deduplicated, oa_only) ==
    IF oa_only
    THEN LET F[i \in 0..Len(deduplicated)] ==
                IF i = 0 THEN <<>>
                ELSE IF deduplicated[i].is_open_access
                     THEN Append(F[i-1], deduplicated[i]) ELSE F[i-1]
         IN  F[Len(deduplicated)]
    ELSE deduplicated

\* ReturnValue returning total_count, the sum of the providers' counts
ReturnValue_SumOfCounts(ranked, count, databases) == <<ranked, count, databases>>

\* return ranked, len(ranked), databases
ReturnValue(ranked, count, databases) == <<ranked, Len(ranked), databases>>

\* the except branch around gather: return [], 0, []
GatherFaultValue == <<<<>>, 0, <<>>>>

\* the names the handler unpacks the value of search_all into
HandlerUnpacks == 4

VARIABLES
    pc,                 \* where the request is: idle, gather, enrich, returned, raised, responded
    query,              \* q
    open_access_only,   \* open_access_only
    outcome,            \* per provider task: Pending, or what gather holds for it
    idle,               \* per pending provider call: ticks since its last network activity
    gather_failed,      \* whether gather itself raised
    before_enrich,      \* all_results when the loop over the gather results ends
    all_results,        \* all_results, after enrich_with_oa once pc is past "enrich"
    total_count,        \* total_count, the sum of the providers' counts
    databases,          \* databases
    ret,                \* the value search_all returned, <<>> before it returns
    response,           \* what the /api/search handler answered
    served,             \* what the servers answer to the requests of one adapter call
    tasks,              \* per lookup of enrich_with_oa: created, running or done, and how often it was started
    textbooks,          \* the cache attributes of the OpenTextbookService objects, the clock, the last fetch
    fetching            \* cursor, results and requests of one _fetch_and_filter call

vars == <<pc, query, open_access_only, outcome, idle, gather_failed, before_enrich,
          all_results, total_count, databases, ret, response, served,
          tasks, textbooks, fetching>>

\* a provider call gather still awaits
Pending == [raised |-> FALSE]

NoResponse == [status |-> 0]

Init ==
    /\ pc = "idle"
    /\ query = <<>>
    /\ open_access_only = FALSE
    /\ outcome = [p \in Providers |-> Pending]
    /\ idle = [p \in Providers |-> 0]
    /\ gather_failed = FALSE
    /\ before_enrich = <<>>
    /\ all_results = <<>>
    /\ total_count = 0
    /\ databases = <<>>
    /\ ret = <<>>
    /\ response = NoResponse
    /\ served = <<>>
    /\ tasks = <<>>
    /\ textbooks = <<>>
    /\ fetching = <<>>

\* GET /api/search: the handler calls search_all, which creates both tasks
\* and awaits gather
Request(q, oa_only) ==
    /\ pc = "idle"
    /\ pc' = "gather"
    /\ query' = q
    /\ open_access_only' = oa_only
    /\ UNCHANGED <<outcome, idle, gather_failed, before_enrich, all_results, total_count,
                   databases, ret, response>>
    /\ UNCHANGED <<served, tasks, textbooks, fetching>>

\* time passes while provider calls wait on the network; a call that has
\* waited TimeoutTicks without activity times out before more time passes
Tick ==
    /\ pc = "gather"
    /\ \E p \in Providers : outcome[p] = Pending
    /\ \A p \in Providers : outcome[p] = Pending => idle[p] < TimeoutTicks
    /\ idle' = [p \in Providers |-> IF outcome[p] = Pending THEN idle[p] + 1 ELSE idle[p]]
    /\ UNCHANGED <<pc, query, open_access_only, outcome, gather_failed, before_enrich,
                   all_results, total_count, databases, ret, response>>
    /\ UNCHANGED <<served, tasks, textbooks, fetching>>

\* the server sends part of its answer: httpx.AsyncClient(timeout=30.0) bounds
\* each network operation, not the whole call, so the wait starts again
ReceiveData(p) ==
    /\ pc = "gather"
    /\ outcome[p] = Pending
    /\ idle[p] > 0
    /\ idle' = [idle EXCEPT ![p] = 0]
    /\ UNCHANGED <<pc, query, open_access_only, outcome, gather_failed, before_enrich,
                   all_results, total_count, databases, ret, response>>
    /\ UNCHANGED <<served, tasks, textbooks, fetching>>

\* a provider's search completes: it returns the parsed answer, or an
\* exception escapes it and gather keeps the exception as its result
SearchCompletes(p, out) ==
    /\ pc = "gather"
    /\ outcome[p] = Pending
    /\ outcome' = [outcome EXCEPT ![p] = out]
    /\ idle' = [idle EXCEPT ![p] = 0]
    /\ UNCHANGED <<pc, query, open_access_only, gather_failed, before_enrich,
                   all_results, total_count, databases, ret, response>>
    /\ UNCHANGED <<served, tasks, textbooks, fetching>>

\* httpx raises a timeout after TimeoutTicks without network activity; search
\* catches it (httpx.HTTPError) and returns [], 0
SearchTimesOut(p) ==
    /\ pc = "gather"
    /\ outcome[p] = Pending
    /\ idle[p] = TimeoutTicks
    /\ outcome' = [outcome EXCEPT ![p] = FaultResult]
    /\ idle' = [idle EXCEPT ![p] = 0]
    /\ UNCHANGED <<pc, query, open_access_only, gather_failed, before_enrich,
                   all_results, total_count, databases, ret, response>>
    /\ UNCHANGED <<served, tasks, textbooks, fetching>>

\* gather itself raises as it is called: search_all returns [], 0, []
GatherFault ==
    /\ pc = "gather"
    /\ \A p \in Providers : outcome[p] = Pending /\ idle[p] = 0
    /\ pc' = "returned"
    /\ gather_failed' = TRUE
    /\ ret' = GatherFaultValue
    /\ UNCHANGED <<query, open_access_only, outcome, idle, before_enrich, all_results,
                   total_count, databases, response>>
    /\ UNCHANGED <<served, tasks, textbooks, fetching>>

\* gather returns once every provider call is done; the loop over its
\* results runs, and search_all awaits enrich_with_oa or raises
FanIn ==
    /\ pc = "gather"
    /\ \A p \in Providers : outcome[p] # Pending
    /\ \E c \in {Combine([p \in Providers |-> outcome[p]])} :
           IF c.raised
           THEN /\ pc' = "raised"
                /\ UNCHANGED <<before_enrich, all_results, total_count, databases>>
           ELSE /\ pc' = "enrich"
                /\ before_enrich' = c.all_results
                /\ all_results' = c.all_results
                /\ total_count' = c.total_count
                /\ databases' = c.databases
    /\ UNCHANGED <<query, open_access_only, outcome, idle, gather_failed, ret, response>>
    /\ UNCHANGED <<served, tasks, textbooks, fetching>>

\* enrich_with_oa returns (its lookups answered oa_info_list); the rest of
\* search_all runs without suspending: deduplicate, filter, rank, return
EnrichAndReturn(oa_info_list) ==
    /\ pc = "enrich"
    /\ \E enriched \in {enrich_with_oa(all_results, oa_info_list)} :
       \E merged \in {_deduplicate(enriched)} :
       \E deduplicated \in {OpenAccessFilter(merged, open_access_only)} :
       \E ranked \in {_rank_results(deduplicated, query)} :
           LET dbs == IF CountOpenAccess(enriched) > CountOpenAccess(all_results)
                      THEN Append(databases, UnpaywallEntry) ELSE databases
           IN  /\ all_results' = enriched
               /\ databases' = dbs
               /\ ret' = ReturnValue(ranked, total_count, dbs)
    /\ pc' = "returned"
    /\ UNCHANGED <<query, open_access_only, outcome, idle, gather_failed, before_enrich,
                   total_count, response>>
    /\ UNCHANGED <<served, tasks, textbooks, fetching>>

\* the handler resumes: it unpacks the value of search_all into four names
\* and builds the SearchResponse; any exception becomes HTTP 500
HandlerResponds ==
    /\ pc \in {"returned", "raised"}
    /\ pc' = "responded"
    /\ response' =
         IF pc = "returned" /\ Len(ret) = HandlerUnpacks
         THEN [status |-> 200, query |-> query, total_results |-> ret[2], results |-> ret[1],
               databases_searched |-> IF ret[3] # <<>> THEN ret[3] ELSE <<"None">>,
               provider_status |-> ret[4]]
         ELSE [status |-> 500]
    /\ UNCHANGED <<query, open_access_only, outcome, idle, gather_failed, before_enrich,
                   all_results, total_count, databases, ret>>
    /\ UNCHANGED <<served, tasks, textbooks, fetching>>

Next ==
    \/ \E q \in Queries, oa_only \in BOOLEAN : Request(q, oa_only)
    \/ Tick
    \/ \E p \in Providers : ReceiveData(p)
    \/ \E p \in Providers : \E out \in SearchOutcomes(p) : SearchCompletes(p, out)
    \/ \E p \in Providers : SearchTimesOut(p)
    \/ GatherFault
    \/ FanIn
    \/ \E oa_info_list \in [1..Len(ResultsToCheck(all_results)) -> OaAnswers] :
            EnrichAndReturn(oa_info_list)
    \/ HandlerResponds

Spec == Init /\ [][Next]_vars

\* The scheduling the event loop guarantees: time passes, a timer that is due
\* fires, and a coroutine that can resume does. Nothing makes a server answer
\* (SearchCompletes) or stop sending (ReceiveData), and nothing makes a
\* request arrive.
FairSpec ==
    /\ Spec
    /\ WF_vars(Tick)
    /\ WF_vars(\E p \in Providers : SearchTimesOut(p))
    /\ WF_vars(FanIn)
    /\ WF_vars(\E oa_info_list \in [1..Len(ResultsToCheck(all_results)) -> OaAnswers] :
                    EnrichAndReturn(oa_info_list))
    /\ WF_vars(HandlerResponds)

(***************************************************************************)
(* _deduplicate on its own: every list of up to MaxInput records of one of  *)
(* the catalogues below                                                    *)
(***************************************************************************)
\* the longest list handed to _deduplicate
MaxInput == 3

DedupCatalogue == OpenAlexCatalogue \o CrossRefCatalogue

\* DOI-less records as OpenAlexService._parse_work builds them, n naming the work
TitleOnly(n, title) ==
    SearchResult(<<"https://openalex.org/", "W", n>>, title, <<NameALi>>, None,
                 Some(2020), OpenAlexName, None, Some(<<"https://openalex.org/", "W", n>>),
                 FALSE, None, Some(0), 0)

TitleGeneMap == <<"G","e","n","e"," ","m","a","p">>

TitleGeneMaps == <<"G","e","n","e"," ","m","a","p","s">>

\* titles one edit apart, titles whose similarity is exactly 0.92, and
\* titles that differ in one punctuation character
TitleCatalogue ==
    << TitleOnly("4", TitleGeneMap), TitleOnly("5", TitleGeneMaps),
       TitleOnly("6", <<"G","e","n","e","s"," ","m","a","p","s">>),
       TitleOnly("7", TitleGeneNetworks \o <<" ","o","f"," ","y","e","a","s","t"," ","0","1">>),
       TitleOnly("8", TitleGeneNetworks \o <<" ","o","f"," ","y","e","a","s","t"," ","2","3">>),
       TitleOnly("9", <<"A"," ","-"," ","B">>),
       TitleOnly("10", <<"A"," "," ","B">>) >>

\* records without a usable title: "Untitled", no title, and "Untitled." twice
UntitledCatalogue ==
    << TitleOnly("11", Untitled), TitleOnly("12", <<>>),
       TitleOnly("13", Untitled \o <<".">>), TitleOnly("14", Untitled \o <<".">>) >>

\* one DOI written in four ways
DoiCatalogue ==
    << OpenAlexCatalogue[1],
       CrossRefCatalogue[1],
       [CrossRefCatalogue[1] EXCEPT !.doi = Some(<<HttpsDoiOrg>> \o Doi1Upper)],
       [CrossRefCatalogue[1] EXCEPT !.doi = Some(<<UpperHttpsDxDoiOrg>> \o Doi1Lower)] >>

NameBlank == <<" ">>

\* records of one DOI with five authors each, no name in common, and records
\* whose authors all have blank names
AuthorCatalogue ==
    << [OpenAlexCatalogue[2] EXCEPT
            !.authors = <<NameALi, NameBWu, NameCXu, <<"D">>, <<"E">>>>],
       [OpenAlexCatalogue[2] EXCEPT
            !.source = CrossRefName,
            !.authors = <<<<"F">>, <<"G">>, <<"H">>, <<"I">>, <<"J">>>>],
       [OpenAlexCatalogue[2] EXCEPT !.authors = <<<<>>>>],
       [OpenAlexCatalogue[2] EXCEPT
            !.authors = <<NameBlank, NameBlank, NameBlank, NameBlank, NameBlank, NameBlank>>] >>

\* two titles that each found a group and a title, written in two ways, that
\* is similar to both
RegroupCatalogue ==
    << TitleOnly("4", TitleGeneMap), TitleOnly("5", TitleGeneMaps),
       TitleOnly("15", TitleGeneMaps \o <<"s">>),
       TitleOnly("16", TitleGeneMaps \o <<".", ".", ".">>) >>

\* lists of up to MaxInput records of one catalogue, and of one record more
\* of the last
DedupInputs ==
    UNION {UNION {[1..n -> Range(family)] : n \in 0..MaxInput} :
              family \in {DedupCatalogue, TitleCatalogue, DoiCatalogue, AuthorCatalogue,
                          UntitledCatalogue}}
    \cup UNION {[1..n -> Range(RegroupCatalogue)] : n \in 0..(MaxInput + 1)}

\* the input list is all_results; ret holds <<the list _deduplicate returned>>
DedupInit ==
    /\ pc = "dedup"
    /\ all_results \in DedupInputs
    /\ query = <<>>
    /\ open_access_only = FALSE
    /\ outcome = [p \in Providers |-> Pending]
    /\ idle = [p \in Providers |-> 0]
    /\ gather_failed = FALSE
    /\ before_enrich = <<>>
    /\ total_count = 0
    /\ databases = <<>>
    /\ ret = <<>>
    /\ response = NoResponse
    /\ served = <<>>
    /\ tasks = <<>>
    /\ textbooks = <<>>
    /\ fetching = <<>>

Deduplicate ==
    /\ pc = "dedup"
    /\ pc' = "deduplicated"
    /\ ret' = <<_deduplicate(all_results)>>
    /\ UNCHANGED <<query, open_access_only, outcome, idle, gather_failed, before_enrich,
                   all_results, total_count, databases, response>>
    /\ UNCHANGED <<served, tasks, textbooks, fetching>>

DedupSpec == DedupInit /\ [][Deduplicate]_vars

(***************************************************************************)
(* _rank_results on its own: every list of up to MaxInput records of the   *)
(* catalogue below, with every query                                       *)
(***************************************************************************)
\* one record with five citation counts, and records that score otherwise
RankCatalogue ==
    << OpenAlexCatalogue[2],
       [OpenAlexCatalogue[2] EXCEPT !.cited_by_count = None],
       [OpenAlexCatalogue[2] EXCEPT !.cited_by_count = Some(150)],
       [OpenAlexCatalogue[2] EXCEPT !.cited_by_count = Some(250)],
       [OpenAlexCatalogue[2] EXCEPT !.cited_by_count = Some(1000)],
       OpenAlexCatalogue[1],
       OpenAlexCatalogue[3],
       CrossRefCatalogue[2] >>

\* the input list is all_results; ret holds <<the list _rank_results returned>>
RankInit ==
    /\ pc = "rank"
    /\ all_results \in UNION {[1..n -> Range(RankCatalogue)] : n \in 0..MaxInput}
    /\ query \in Queries
    /\ open_access_only = FALSE
    /\ outcome = [p \in Providers |-> Pending]
    /\ idle = [p \in Providers |-> 0]
    /\ gather_failed = FALSE
    /\ before_enrich = <<>>
    /\ total_count = 0
    /\ databases = <<>>
    /\ ret = <<>>
    /\ response = NoResponse
    /\ served = <<>>
    /\ tasks = <<>>
    /\ textbooks = <<>>
    /\ fetching = <<>>

Rank ==
    /\ pc = "rank"
    /\ pc' = "ranked"
    /\ ret' = <<_rank_results(all_results, query)>>
    /\ UNCHANGED <<query, open_access_only, outcome, idle, gather_failed, before_enrich,
                   all_results, total_count, databases, response>>
    /\ UNCHANGED <<served, tasks, textbooks, fetching>>

RankSpec == RankInit /\ [][Rank]_vars

(***************************************************************************)
(* enrich_with_oa on its own: every list of up to MaxInput records of the  *)
(* catalogue below, with every combination of lookup answers               *)
(***************************************************************************)
\* an open-access record, two records of the same DOI string that are not,
\* a record of another DOI that is not but carries a URL, and a DOI-less one
EnrichCatalogue ==
    << OpenAlexCatalogue[1],
       [CrossRefCatalogue[1] EXCEPT !.doi = Some(Doi1Lower)],
       CrossRefCatalogue[1],
       [OpenAlexCatalogue[2] EXCEPT !.open_access_url = Some(LandingUrl)],
       OpenAlexCatalogue[3] >>

\* the list handed to enrich_with_oa is all_results (before_enrich keeps it);
\* once enriched, all_results is the list returned and outcome is
\* oa_info_list, what gather holds for the lookups
EnrichInit ==
    /\ pc = "enrich"
    /\ all_results \in UNION {[1..n -> Range(EnrichCatalogue)] : n \in 0..MaxInput}
    /\ before_enrich = all_results
    /\ query = <<>>
    /\ open_access_only = FALSE
    /\ outcome = <<>>
    /\ idle = [p \in Providers |-> 0]
    /\ gather_failed = FALSE
    /\ total_count = 0
    /\ databases = <<>>
    /\ ret = <<>>
    /\ response = NoResponse
    /\ served = <<>>
    /\ tasks = <<>>
    /\ textbooks = <<>>
    /\ fetching = <<>>

Enrich(oa_info_list) ==
    /\ pc = "enrich"
    /\ pc' = "enriched"
    /\ outcome' = oa_info_list
    /\ all_results' = enrich_with_oa(all_results, oa_info_list)
    /\ UNCHANGED <<query, open_access_only, idle, gather_failed, before_enrich,
                   total_count, databases, ret, response>>
    /\ UNCHANGED <<served, tasks, textbooks, fetching>>

EnrichNext ==
    \E oa_info_list \in [1..Len(ResultsToCheck(all_results)) -> OaAnswers] : Enrich(oa_info_list)

EnrichSpec == EnrichInit /\ [][EnrichNext]_vars

(***************************************************************************)
(* One adapter call on its own: OpenAlexService.search, which sends one    *)
(* request, and BioRxivService.search, which reads two servers page by     *)
(* page. served holds what the servers answer: for OpenAlex one answer,    *)
(* for bioRxiv the answers of each server to its successive requests.      *)
(***************************************************************************)
\* a request or the parsing of its answer raises
Fault == [fault |-> TRUE]

\* OpenAlexService.search: the parsed page and its count, or [], 0 from
\* either except branch
OpenAlexSearch(answer) ==
    IF answer = Fault THEN <<<<>>, 0>> ELSE <<answer.results, answer.count>>

\* for server in ["biorxiv", "medrxiv"]
BioRxivServers == <<"biorxiv", "medrxiv">>

\* max_fetch
max_fetch == 500

\* cursor += 100
CursorStep == 100

\* abstract[:500] + "..."
AbstractLimit == 500

\* authors_str.split(";")[:5]
PreprintAuthors == 5

\* score += 2.0 / 1.0 / 1.0 / 0.5, in halves of a point
PreprintTitlePoints == 4

PreprintAbstractPoints == 2

PreprintRecentYear == 2024

PreprintRecentPoints == 2

PreprintLastYear == 2023

PreprintLastPoints == 1

\* s.split(sep): the pieces of s between the occurrences of sep, in order
SplitOn(str, sep) ==
    Bind(str, LAMBDA s :
        LET idxs == {i \in 1..Len(s) : s[i] = sep}
            n == Cardinality(idxs)
            cut(k) == IF k = 0 THEN 0
                      ELSE IF k = n + 1 THEN Len(s) + 1
                      ELSE CHOOSE i \in idxs : Cardinality({j \in idxs : j < i}) = k - 1
        IN  [k \in 1..(n + 1) |-> SubSeq(s, cut(k - 1) + 1, cut(k) - 1)])

\* an item of a collection: doi, title, abstract (None when absent), the
\* authors string, the year of its date (YYYY-MM-DD), and the version
Preprint(doi, title, abstract, authors, year, version) ==
    [doi |-> doi, title |-> title, abstract |-> abstract, authors |-> authors,
     date |-> <<year, 5, 1>>, version |-> version]

\* the collection the server returns at its k-th request
Collection(server, k) ==
    IF server = "biorxiv"
    THEN IF k % 2 = 1
         THEN << Preprint(<<"1","0",".","4","/","a">>, TitleGeneNetworks \o <<" ">>, Some(<<"s","o","i","l">>),
                          <<"A"," ","L","i",";"," ","B"," ","W","u",";">>, 2024, <<"2">>),
                 Preprint(<<"1","0",".","4","/","b">>, TitleSoil, None, <<>>, 2023, <<"1">>) >>
         ELSE << Preprint(<<"1","0",".","4","/","b">>, TitleGeneMaps, Some(<<" ","s","o","i","l"," ">>),
                          <<"C"," ","X","u">>, 2022, <<"1">>) >>
    ELSE << Preprint(<<"1","0",".","5","/","c">>, TitleSoil \o <<" ">> \o TitleGeneMap, None,
                     <<"B"," ","W","u">>, 2024, <<"1">>) >>

\* _matches_query
_matches_query(item, query_lower, query_words) ==
    LET text == Lower(item.title) \o <<" ">> \o Lower(OrEmpty(item.abstract))
        matches == Cardinality({word \in query_words : Contains(text, word)})
    IN  matches >= Max(1, Cardinality(query_words) \div 2)

\* _parse_preprint
_parse_preprint(item, server) ==
    LET base == IF server = "biorxiv"
                THEN <<"https://www.biorxiv.org/content/">>
                ELSE <<"https://www.medrxiv.org/content/">>
        abstract == IF Truthy(item.abstract)
                    THEN LET a == Strip(item.abstract[1])
                         IN  Some(IF Len(a) > AbstractLimit
                                  THEN SubSeq(a, 1, AbstractLimit) \o <<".", ".", ".">>
                                  ELSE a)
                    ELSE item.abstract
        pieces == IF item.authors # <<>> THEN SplitOn(item.authors, ";") ELSE <<>>
        first == SubSeq(pieces, 1, Min(PreprintAuthors, Len(pieces)))
        names == LET F[i \in 0..Len(first)] ==
                        IF i = 0 THEN <<>>
                        ELSE IF Strip(first[i]) # <<>> THEN Append(F[i-1], Strip(first[i]))
                             ELSE F[i-1]
                 IN  F[Len(first)]
    IN  SearchResult(IF item.doi # <<>> THEN <<server, ":">> \o item.doi ELSE Unknown,
                     Strip(item.title),
                     IF names # <<>> THEN names ELSE <<UnknownAuthor>>,
                     abstract,
                     Some(item.date[1]),
                     IF server = "biorxiv" THEN <<"bioRxiv">> ELSE <<"medRxiv">>,
                     Some(item.doi),
                     Some(base \o item.doi),
                     TRUE,
                     Some(base \o item.doi \o <<"v">> \o item.version \o <<".full.pdf">>),
                     Some(0), 0)

\* the results of one collection: the items that match, parsed
Filtered(collection, server, q) ==
    LET query_lower == Lower(q)
        query_words == SplitWords(query_lower)
        F[i \in 0..Len(collection)] ==
            IF i = 0 THEN <<>>
            ELSE IF _matches_query(collection[i], query_lower, query_words)
                 THEN Append(F[i-1], _parse_preprint(collection[i], server))
                 ELSE F[i-1]
    IN  F[Len(collection)]

\* the while loop of _fetch_and_filter from its k-th request on; answers are
\* the server's answers to the successive requests, each a Fault or the
\* total the server reports. A fault ends the loop and the function returns
\* the results gathered so far.
RECURSIVE FetchFrom(_, _, _, _, _)
FetchFrom(k, results, server, answers, q) ==
    IF CursorStep * (k - 1) >= max_fetch \/ k > Len(answers) THEN results
    ELSE IF answers[k] = Fault THEN results
    ELSE IF Collection(server, k) = <<>> THEN results
    ELSE Bind(results \o Filtered(Collection(server, k), server, q), LAMBDA more :
            IF Len(more) >= max_fetch THEN more
            ELSE IF CursorStep * k >= answers[k].total THEN more
            ELSE FetchFrom(k + 1, more, server, answers, q))

_fetch_and_filter(server, answers, q) == FetchFrom(1, <<>>, server, answers, q)

\* score(result) of _sort_by_relevance, in halves of a point
PreprintScore(result, q) ==
    LET query_words == SplitWords(Lower(q))
        title_lower == Lower(result.title)
        abstract_lower == Lower(OrEmpty(result.abstract))
    IN  Cardinality({w \in query_words : Contains(title_lower, w)}) * PreprintTitlePoints
        + Cardinality({w \in query_words : Contains(abstract_lower, w)}) * PreprintAbstractPoints
        + (IF TruthyInt(result.publication_year)
           THEN IF result.publication_year[1] >= PreprintRecentYear THEN PreprintRecentPoints
                ELSE IF result.publication_year[1] >= PreprintLastYear THEN PreprintLastPoints
                ELSE 0
           ELSE 0)

\* sorted(results, key=score, reverse=True)
_sort_by_relevance(results, q) ==
    Bind([i \in 1..Len(results) |-> PreprintScore(results[i], q)], LAMBDA key :
        LET pos(i) == Cardinality({j \in 1..Len(results) : key[j] > key[i]})
                      + Cardinality({j \in 1..(i-1) : key[j] = key[i]}) + 1
        IN  [k \in 1..Len(results) |-> results[CHOOSE i \in 1..Len(results) : pos(i) = k]])

\* BioRxivService.search(query, page, per_page)
BioRxivSearch(answers, q, page, per_page) ==
    LET F[i \in 0..Len(BioRxivServers)] ==
            IF i = 0 THEN <<>>
            ELSE F[i-1] \o _fetch_and_filter(BioRxivServers[i], answers[i], q)
    IN  Bind(_sort_by_relevance(F[Len(BioRxivServers)], q), LAMBDA sorted :
            <<SubSeq(sorted, (page - 1) * per_page + 1, Min(page * per_page, Len(sorted))),
              Len(sorted)>>)

\* the most requests one server is sent in one call
MaxRequests == 2

\* the default of the page parameter
DefaultPage == 1

\* the default of the per_page parameter
DefaultPerPage == 20

\* a server's answers to n requests: each faults or succeeds; the server
\* reports as its total the number of items of its n collections
ServerAnswers ==
    UNION {[1..n -> {Fault, [fault |-> FALSE, total |-> CursorStep * n]}] : n \in 1..MaxRequests}

AdapterInit ==
    /\ pc = "search"
    /\ served \in
        {[adapter |-> "OpenAlex", answer |-> a] :
            a \in {Fault} \cup {[fault |-> FALSE, results |-> recs, count |-> Len(recs) + ServerExtra] :
                                    recs \in Pages(1)}}
        \cup {[adapter |-> "bioRxiv", answers |-> <<b, m>>] : b \in ServerAnswers, m \in ServerAnswers}
    /\ query \in Queries
    /\ open_access_only = FALSE
    /\ outcome = [p \in Providers |-> Pending]
    /\ idle = [p \in Providers |-> 0]
    /\ gather_failed = FALSE
    /\ before_enrich = <<>>
    /\ all_results = <<>>
    /\ total_count = 0
    /\ databases = <<>>
    /\ ret = <<>>
    /\ response = NoResponse
    /\ tasks = <<>>
    /\ textbooks = <<>>
    /\ fetching = <<>>

\* the call of search runs to its return; ret holds <<the pair it returned>>
AdapterSearch ==
    /\ pc = "search"
    /\ pc' = "searched"
    /\ ret' = <<IF served.adapter = "OpenAlex"
                THEN OpenAlexSearch(served.answer)
                ELSE BioRxivSearch(served.answers, query, DefaultPage, DefaultPerPage)>>
    /\ UNCHANGED <<query, open_access_only, outcome, idle, gather_failed, before_enrich,
                   all_results, total_count, databases, response, served,
                   tasks, textbooks, fetching>>

AdapterSpec == AdapterInit /\ [][AdapterSearch]_vars

(***************************************************************************)
(* enrich_with_oa step by step: the batches of lookups it gathers. served  *)
(* holds the answer each lookup will get, outcome is oa_info_list.         *)
(***************************************************************************)
\* range(0, len(tasks), 10) and tasks[i:i+10]
BatchSize == 10

\* the most records needing a lookup in one call
MaxLookups == 11

\* the answers to the lookups of one call repeat with this period
AnswerPeriod == 3

\* a record needing a lookup, as CrossRefService._parse_work builds it; the
\* records more than BatchSize apart have the same DOI
LookupRecord(t) ==
    [CrossRefCatalogue[1] EXCEPT
        !.doi = Some(<<"1", "0", ".", "9", "/", ToString(((t - 1) % BatchSize) + 1)>>)]

\* tasks[i:i+10] with every task put in flight at once
Batch_Whole(i, n) == (i + 1)..n

\* tasks[i:i+10], as the positions in a list of n tasks
Batch(i, n) == (i + 1)..Min(i + BatchSize, n)

BatchInit ==
    /\ pc = "batch"
    /\ \E n \in 0..MaxLookups :
            all_results = <<OpenAlexCatalogue[1]>> \o [t \in 1..n |-> LookupRecord(t)]
    /\ before_enrich = all_results
    /\ served \in {[t \in 1..Len(ResultsToCheck(all_results)) |-> g[((t - 1) % AnswerPeriod) + 1]] :
                      g \in [1..AnswerPeriod -> OaAnswers]}
    /\ tasks = [t \in 1..Len(ResultsToCheck(all_results)) |->
                    [state |-> "created", started |-> 0]]
    /\ outcome = <<>>
    /\ query = <<>>
    /\ open_access_only = FALSE
    /\ idle = [p \in Providers |-> 0]
    /\ gather_failed = FALSE
    /\ total_count = 0
    /\ databases = <<>>
    /\ ret = <<>>
    /\ response = NoResponse
    /\ textbooks = <<>>
    /\ fetching = <<>>

\* asyncio.gather(*batch) puts the coroutines of the batch in flight
StartBatch ==
    /\ pc = "batch"
    /\ Len(outcome) < Len(tasks)
    /\ pc' = "gather"
    /\ tasks' = [t \in 1..Len(tasks) |->
                    IF t \in Batch(Len(outcome), Len(tasks))
                    THEN [state |-> "running", started |-> tasks[t].started + 1]
                    ELSE tasks[t]]
    /\ UNCHANGED <<query, open_access_only, outcome, idle, gather_failed, before_enrich,
                   all_results, total_count, databases, ret, response, served,
                   textbooks, fetching>>

\* one _check_doi_oa call returns its dict or None
LookupReturns(t) ==
    /\ pc = "gather"
    /\ tasks[t].state = "running"
    /\ tasks' = [tasks EXCEPT ![t].state = "done"]
    /\ UNCHANGED <<pc, query, open_access_only, outcome, idle, gather_failed, before_enrich,
                   all_results, total_count, databases, ret, response, served,
                   textbooks, fetching>>

\* gather returns when every lookup of the batch has returned;
\* oa_info_list.extend(batch_results)
GatherReturns ==
    /\ pc = "gather"
    /\ \A t \in 1..Len(tasks) : tasks[t].state # "running"
    /\ pc' = "sleep"
    /\ outcome' = outcome \o [k \in 1..Cardinality(Batch(Len(outcome), Len(tasks))) |->
                                 served[Len(outcome) + k]]
    /\ UNCHANGED <<query, open_access_only, idle, gather_failed, before_enrich,
                   all_results, total_count, databases, ret, response, served,
                   tasks, textbooks, fetching>>

\* await asyncio.sleep(0.1)
Sleep ==
    /\ pc = "sleep"
    /\ pc' = "batch"
    /\ UNCHANGED <<query, open_access_only, outcome, idle, gather_failed, before_enrich,
                   all_results, total_count, databases, ret, response, served,
                   tasks, textbooks, fetching>>

\* the loop is over (or nothing was to check): the lookup dict is built and
\* the records are updated
ApplyAnswers ==
    /\ pc = "batch"
    /\ Len(outcome) = Len(tasks)
    /\ pc' = "enriched"
    /\ all_results' = enrich_with_oa(all_results, outcome)
    /\ UNCHANGED <<query, open_access_only, outcome, idle, gather_failed, before_enrich,
                   total_count, databases, ret, response, served,
                   tasks, textbooks, fetching>>

BatchNext ==
    \/ StartBatch
    \/ \E t \in 1..Len(tasks) : LookupReturns(t)
    \/ GatherReturns
    \/ Sleep
    \/ ApplyAnswers

BatchSpec == BatchInit /\ [][BatchNext]_vars

(***************************************************************************)
(* OpenTextbookService._fetch_all_textbooks and its cache. _cache and      *)
(* _cache_timestamp are class attributes, both None, which the code reads  *)
(* and assigns through self: an assignment makes an attribute of that      *)
(* object, and a read finds the object's attribute if it has one and the   *)
(* class's otherwise. Time is in whole seconds.                            *)
(***************************************************************************)
\* CACHE_TTL
CACHE_TTL == 3600

\* the OpenTextbookService objects of the process
NumInstances == 2

\* the most fetches, and the most advances of the clock, in one behaviour
MaxFetches == 3

MaxAdvances == 3

\* the object has no attribute of its own
Unset == [set |-> FALSE]

\* the object's own attribute, holding v
OwnAttr(v) == [set |-> TRUE, value |-> v]

\* self._cache / self._cache_timestamp, the class's value being None
ReadAttr(attr, o) == IF attr[o].set THEN attr[o].value ELSE None

\* what the server answers to GET textbooks.json: a fault, or a list
CatalogAnswers ==
    {Fault} \cup {[fault |-> FALSE, data |-> d] : d \in {<<>>, <<"book 1">>, <<"book 1", "book 2">>}}

CacheInit ==
    /\ pc = "textbooks"
    /\ textbooks = [_cache |-> [o \in 1..NumInstances |-> Unset],
                    _cache_timestamp |-> [o \in 1..NumInstances |-> Unset],
                    now |-> 0, advances |-> 0, fetches |-> 0, last |-> None]
    /\ query = <<>>
    /\ open_access_only = FALSE
    /\ outcome = <<>>
    /\ idle = [p \in Providers |-> 0]
    /\ gather_failed = FALSE
    /\ before_enrich = <<>>
    /\ all_results = <<>>
    /\ total_count = 0
    /\ databases = <<>>
    /\ ret = <<>>
    /\ response = NoResponse
    /\ served = <<>>
    /\ tasks = <<>>
    /\ fetching = <<>>

\* object o runs _fetch_all_textbooks; answer is what the server would answer.
\* last records the call: the object, the time, the time stamps the objects
\* read before it, whether a request was sent, and the list returned.
FetchAllTextbooks(o, answer) ==
    /\ pc = "textbooks"
    /\ textbooks.fetches < MaxFetches
    /\ LET cache == ReadAttr(textbooks._cache, o)
           stamp == ReadAttr(textbooks._cache_timestamp, o)
           hit == cache # None /\ stamp # None /\ textbooks.now - stamp[1] < CACHE_TTL
           stored == ~hit /\ answer # Fault
           call == [inst |-> o, at |-> textbooks.now,
                    before |-> [i \in 1..NumInstances |-> ReadAttr(textbooks._cache_timestamp, i)],
                    requested |-> ~hit,
                    returned |-> IF hit THEN cache[1]
                                 ELSE IF answer # Fault THEN answer.data
                                 ELSE IF cache # None /\ cache[1] # <<>> THEN cache[1] ELSE <<>>]
       IN  textbooks' = [textbooks EXCEPT
                            !._cache[o] = IF stored THEN OwnAttr(Some(answer.data)) ELSE @,
                            !._cache_timestamp[o] = IF stored THEN OwnAttr(Some(textbooks.now)) ELSE @,
                            !.fetches = @ + 1,
                            !.last = Some(call)]
    /\ UNCHANGED <<pc, query, open_access_only, outcome, idle, gather_failed, before_enrich,
                   all_results, total_count, databases, ret, response, served,
                   tasks, fetching>>

\* time passes
Advance(d) ==
    /\ pc = "textbooks"
    /\ textbooks.advances < MaxAdvances
    /\ textbooks' = [textbooks EXCEPT !.now = @ + d, !.advances = @ + 1]
    /\ UNCHANGED <<pc, query, open_access_only, outcome, idle, gather_failed, before_enrich,
                   all_results, total_count, databases, ret, response, served,
                   tasks, fetching>>

CacheNext ==
    \/ \E o \in 1..NumInstances : \E answer \in CatalogAnswers : FetchAllTextbooks(o, answer)
    \/ \E d \in {1, CACHE_TTL - 1} : Advance(d)

CacheSpec == CacheInit /\ [][CacheNext]_vars

(***************************************************************************)
(* BioRxivService._fetch_and_filter request by request, the server free to *)
(* answer each request as it likes. fetching holds the server, the cursor, *)
(* len(results) and the cursors of the requests sent.                      *)
(***************************************************************************)
\* while cursor <= max_fetch
LoopContinues_Inclusive(cursor) == cursor <= max_fetch

\* while cursor < max_fetch
LoopContinues(cursor) == cursor < max_fetch

\* what one request can end in: a fault (of the request, the status or the
\* JSON), or a page: the number of its items that match the query and parse
\* (none for an empty collection), and its messages: none, a total that is
\* no number, a first message of the wrong shape, or a total
PageAnswers ==
    {Fault}
    \cup {a \in [fault : {FALSE}, items : {0, 1, 2, max_fetch}, matched : {0, 1, 2, max_fetch},
                 messages : {"none", "not a number", "wrong shape", "total"},
                 total : {0, 150, 2 * max_fetch}] :
            /\ a.matched <= a.items
            /\ a.messages # "total" => a.total = 0}

FetchInit ==
    /\ pc = "fetch"
    /\ \E server \in Range(BioRxivServers) :
            fetching = [server |-> server, cursor |-> 0, results |-> 0, requests |-> <<>>]
    /\ query = <<>>
    /\ open_access_only = FALSE
    /\ outcome = <<>>
    /\ idle = [p \in Providers |-> 0]
    /\ gather_failed = FALSE
    /\ before_enrich = <<>>
    /\ all_results = <<>>
    /\ total_count = 0
    /\ databases = <<>>
    /\ ret = <<>>
    /\ response = NoResponse
    /\ served = <<>>
    /\ tasks = <<>>
    /\ textbooks = <<>>

\* one turn of the while loop: the request at the cursor and what follows
\* from its answer
RequestPage(answer) ==
    /\ pc = "fetch"
    /\ LoopContinues(fetching.cursor)
    /\ LET sent == [fetching EXCEPT !.requests = Append(@, fetching.cursor)]
           read == [sent EXCEPT !.results = @ + answer.matched, !.cursor = @ + CursorStep]
       IN  IF answer = Fault
           THEN fetching' = sent /\ pc' = "fetched"
           ELSE IF answer.items = 0
           THEN fetching' = sent /\ pc' = "fetched"
           ELSE /\ fetching' = read
                /\ pc' = IF \/ read.results >= max_fetch
                            \/ answer.messages = "wrong shape"
                            \/ answer.messages = "total" /\ read.cursor >= answer.total
                         THEN "fetched" ELSE "fetch"
    /\ UNCHANGED <<query, open_access_only, outcome, idle, gather_failed, before_enrich,
                   all_results, total_count, databases, ret, response, served,
                   tasks, textbooks>>

\* the loop condition fails: return results
LoopEnds ==
    /\ pc = "fetch"
    /\ ~LoopContinues(fetching.cursor)
    /\ pc' = "fetched"
    /\ UNCHANGED <<query, open_access_only, outcome, idle, gather_failed, before_enrich,
                   all_results, total_count, databases, ret, response, served,
                   tasks, textbooks, fetching>>

FetchNext ==
    \/ \E answer \in PageAnswers : RequestPage(answer)
    \/ LoopEnds

\* every request returns or raises within the client's timeout
FetchSpec == FetchInit /\ [][FetchNext]_vars /\ WF_vars(FetchNext)

(***************************************************************************)
(* Properties                                                              *)
(***************************************************************************)
\* search_all has returned a value
Returned == ret # <<>> /\ pc \in {"returned", "responded"}

\* search_all has raised
RaisedOut == pc = "raised" \/ (pc = "responded" /\ ret = <<>>)

\* every provider call is done, and the loop over the gather results has run
FanInDone == pc \in {"enrich", "returned", "raised", "responded"} /\ ~gather_failed

\* provider p's call completed with a pair whose count is a number
Succeeded(p) == outcome[p] # Pending /\ ~outcome[p].raised /\ outcome[p].pair[2] # None

\* provider p's call completed with a pair whose count is no number
Malformed(p) == outcome[p] # Pending /\ ~outcome[p].raised /\ outcome[p].pair[2] = None

\* the records of the providers that succeeded, in provider order
SucceededRecords ==
    LET F[p \in 0..Len(db_names)] ==
            IF p = 0 THEN <<>>
            ELSE IF Succeeded(p) THEN F[p-1] \o outcome[p].pair[1] ELSE F[p-1]
    IN  F[Len(db_names)]

\* r without the fields the enrichment writes
WithoutOa(r) == [r EXCEPT !.is_open_access = FALSE, !.open_access_url = None]

\* r without the score the ranker writes
Unscored(r) == [r EXCEPT !.relevance_score = 0]

StatusValues == {"ok", "partial", "timeout", "error"}

\* C1 (as claimed): every value search_all returns has a fourth component
\* holding one status record per configured provider, in declaration order,
\* with a status among ok, partial, timeout, error.
C1_StatusPerProvider ==
    Returned =>
        /\ Len(ret) = 4
        /\ Len(ret[4]) = Len(db_names)
        /\ \A p \in Providers :
                ret[4][p].name = db_names[p] /\ ret[4][p].status \in StatusValues

\* C2 (as claimed): when some provider calls raise and the others return
\* well-formed pairs, search_all does not raise and its provider-names list
\* holds only names of providers that succeeded.
C2_OnlySucceededProvidersNamed ==
    (/\ FanInDone
     /\ \E p \in Providers : outcome[p].raised
     /\ \A p \in Providers : outcome[p].raised \/ Succeeded(p))
    => /\ ~RaisedOut
       /\ Returned => \A i \in 1..Len(ret[3]) :
                          \E p \in Providers : Succeeded(p) /\ ret[3][i] = db_names[p]

\* C2 (amended): when some provider calls raise (possibly all) and the others
\* return well-formed pairs, search_all does not raise; the records it works
\* on are exactly those of the providers that succeeded (none when all
\* failed), it returns them reconciled, filtered and ranked, and its
\* provider-names list holds the names of the providers that returned at
\* least one record, in declaration order, followed by the entry
\* "Unpaywall (OA enrichment)" exactly when the enrichment raised the number
\* of open-access records.
C2_RaisingProvidersTolerated ==
    (/\ FanInDone
     /\ \E p \in Providers : outcome[p].raised
     /\ \A p \in Providers : outcome[p].raised \/ Succeeded(p))
    => /\ ~RaisedOut
       /\ before_enrich = SucceededRecords
       /\ Returned =>
            /\ Len(all_results) = Len(SucceededRecords)
            /\ \A i \in 1..Len(all_results) :
                    WithoutOa(all_results[i]) = WithoutOa(SucceededRecords[i])
            /\ ret[1] = _rank_results(
                            OpenAccessFilter(_deduplicate(all_results), open_access_only), query)
            /\ ((\A p \in Providers : outcome[p].raised) => ret[1] = <<>> /\ ret[2] = 0)
            /\ LET named == {p \in Providers : Succeeded(p) /\ outcome[p].pair[1] # <<>>}
                   enriched == CountOpenAccess(all_results) > CountOpenAccess(before_enrich)
               IN  /\ Len(ret[3]) = Cardinality(named) + (IF enriched THEN 1 ELSE 0)
                   /\ \A i \in 1..Cardinality(named) :
                        \E p \in named :
                            /\ ret[3][i] = db_names[p]
                            /\ Cardinality({q \in named : q < p}) = i - 1
                   /\ enriched => ret[3][Len(ret[3])] = UnpaywallEntry

\* C2 witness: one provider raised, the other returned records, and
\* search_all returned a non-empty list
C2_Witness ==
    /\ Returned
    /\ \E p \in Providers : outcome[p].raised
    /\ \E p \in Providers : Succeeded(p)
    /\ ret[1] # <<>>

\* C3 (as claimed): a provider that returns malformed data is treated as
\* failed with zero records; search_all returns the other providers'
\* records and does not raise.
C3_MalformedProviderTolerated ==
    (FanInDone /\ \E p \in Providers : Malformed(p))
    => /\ ~RaisedOut
       /\ before_enrich = SucceededRecords

\* C4 (as claimed): search_all always eventually returns, whatever a provider
\* does: a call that does not complete on its own is cut off by its timeout.
C4_EventuallyReturns == (pc = "gather") ~> (Returned \/ RaisedOut)

\* the normalized DOI of r, None when it has none
NormDoi(r) == _normalize_doi(r.doi)

\* C5: with open_access_only, every returned record is open access, the
\* returned records are exactly the reconciled records whose flag is true
\* after enrichment and merge, and every DOI-bearing record that is open
\* access after enrichment is represented by the returned record of its DOI.
C5_OpenAccessFilter ==
    (Returned /\ ~gather_failed /\ open_access_only)
    => Bind(_deduplicate(all_results), LAMBDA merged :
            /\ \A i \in 1..Len(ret[1]) : ret[1][i].is_open_access
            /\ {Unscored(ret[1][i]) : i \in 1..Len(ret[1])}
                 = {merged[k] : k \in {j \in 1..Len(merged) : merged[j].is_open_access}}
            /\ Len(ret[1]) = Cardinality({j \in 1..Len(merged) : merged[j].is_open_access})
            /\ \A j \in 1..Len(all_results) :
                    (all_results[j].is_open_access /\ Truthy(NormDoi(all_results[j])))
                    => \E i \in 1..Len(ret[1]) : NormDoi(ret[1][i]) = NormDoi(all_results[j]))

\* C5 witness: with open_access_only, the returned list holds a record that
\* is open access only through the merge with another source's record, and a
\* record that is open access only through the enrichment
C5_Witness ==
    /\ Returned
    /\ open_access_only
    /\ \E i \in 1..Len(ret[1]) : \E j, k \in 1..Len(all_results) :
            /\ Truthy(NormDoi(ret[1][i]))
            /\ NormDoi(all_results[j]) = NormDoi(ret[1][i])
            /\ NormDoi(all_results[k]) = NormDoi(ret[1][i])
            /\ all_results[j].is_open_access
            /\ ~all_results[k].is_open_access
    /\ \E i \in 1..Len(ret[1]) : \E j \in 1..Len(all_results) :
            /\ Truthy(NormDoi(ret[1][i]))
            /\ NormDoi(all_results[j]) = NormDoi(ret[1][i])
            /\ all_results[j].is_open_access
            /\ ~before_enrich[j].is_open_access

\* C6 (as claimed): whenever search_all returns without raising, the handler
\* answers with a SearchResponse (HTTP 200), not with HTTP 500.
C6_HandlerAnswersWhenSearchReturns ==
    (pc = "responded" /\ ret # <<>>) => response.status = 200

\* C7 (as claimed): when every provider completes successfully with zero
\* records, search_all returns an empty list, the count 0, no provider
\* name, and a status list in which every provider is ok with 0 results.
C7_AllProvidersEmpty ==
    (/\ Returned
     /\ ~gather_failed
     /\ \A p \in Providers : Succeeded(p) /\ outcome[p].pair[1] = <<>>)
    => /\ Len(ret) = 4
       /\ ret[1] = <<>>
       /\ ret[2] = 0
       /\ ret[3] = <<>>
       /\ Len(ret[4]) = Len(db_names)
       /\ \A p \in Providers :
            /\ ret[4][p].name = db_names[p]
            /\ ret[4][p].status = "ok"
            /\ ret[4][p].results_count = 0

\* C8 (as claimed): a fault of the orchestration itself (gather raising, or
\* an exception in a later stage of search_all) never leaves search_all:
\* the call returns (empty records, 0, no names, no statuses).
C8_EngineFaultDegrades ==
    (gather_failed \/ RaisedOut) => (Returned /\ ret = <<<<>>, 0, <<>>, <<>>>>)

\* C9: the total count search_all returns is the length of the list it
\* returns, whatever the providers reported as their counts.
C9_TotalIsLength == Returned => ret[2] = Len(ret[1])

\* C9 witness: search_all returned records, and the sum of the providers'
\* counts is another number than the length of the list
C9_Witness == Returned /\ ret[1] # <<>> /\ total_count # Len(ret[1])

\* the left fold of _merge_results over the records of xs at the positions
\* in idx, in list order
RECURSIVE FoldMerge(_, _)
FoldMerge(xs, idx) ==
    Bind(CHOOSE i \in idx : \A j \in idx : i >= j, LAMBDA last :
        IF idx = {last} THEN xs[last]
        ELSE _merge_results(FoldMerge(xs, idx \ {last}), xs[last]))

\* C10: _deduplicate returns at most as many records as it is given, and
\* each is one of the given records or the merge, in list order, of two or
\* more of them.
C10_ReconcileInventsNothing ==
    (pc = "deduplicated")
    => /\ Len(ret[1]) <= Len(all_results)
       /\ \A i \in 1..Len(ret[1]) :
            \E idx \in SUBSET (1..Len(all_results)) :
                idx # {} /\ ret[1][i] = FoldMerge(all_results, idx)

\* C10 witness: a list of three records of which two were merged and one
\* was returned as given
C10_Witness ==
    /\ pc = "deduplicated"
    /\ Len(all_results) = 3
    /\ Len(ret[1]) = 2
    /\ \E i \in 1..2 : \E j \in 1..3 : ret[1][i] = all_results[j]
    /\ \E i \in 1..2 : \A j \in 1..3 : ret[1][i] # all_results[j]

\* C11 (as claimed): reconciling the list _deduplicate returned gives the
\* same set of records; the second pass merges nothing.
C11_ReconcileIdempotent ==
    (pc = "deduplicated") => Range(_deduplicate(ret[1])) = Range(ret[1])

\* the DOI a DOI string denotes: lower case, without a leading DOI-URL prefix
CanonicalDoi(doi) ==
    Bind(LowerAtoms(Strip(doi)), LAMBDA d :
        IF d # <<>> /\ d[1] \in {HttpsDoiOrg, HttpDoiOrg, HttpsDxDoiOrg, HttpDxDoiOrg} THEN Tail(d) ELSE d)

\* C12 (as claimed): input records whose DOIs denote the same DOI up to
\* letter case and a DOI-URL prefix end in exactly one output record; the
\* output holds one record per DOI.
C12_OneRecordPerDoi ==
    (pc = "deduplicated")
    => \A i \in 1..Len(all_results) :
            Truthy(all_results[i].doi)
            => Cardinality({k \in 1..Len(ret[1]) :
                                /\ Truthy(ret[1][k].doi)
                                /\ CanonicalDoi(ret[1][k].doi[1])
                                     = CanonicalDoi(all_results[i].doi[1])}) = 1

\* r has no DOI and a title that normalizes to a non-empty string
DoiLessWithTitle(r) == ~Truthy(_normalize_doi(r.doi)) /\ Truthy(_normalize_title(Some(r.title)))

\* the similarity of the normalized titles of two such records
TitleSimilarity(r1, r2) ==
    _calculate_similarity(_normalize_title(Some(r1.title))[1], _normalize_title(Some(r2.title))[1])

\* the titles are the same once the letter case and the punctuation
\* characters are taken away
SameButPunctuationAndCase(t1, t2) == RemovePunct(Lower(t1)) = RemovePunct(Lower(t2))

\* C13 (as claimed): two DOI-less records with usable titles become one
\* record when the similarity of their normalized titles is 0.92 or more and
\* stay two when it is less; titles differing only in punctuation or case
\* have similarity 1.0.
C13_FuzzyTitleThreshold ==
    (/\ pc = "deduplicated"
     /\ Len(all_results) = 2
     /\ DoiLessWithTitle(all_results[1])
     /\ DoiLessWithTitle(all_results[2]))
    => Bind(TitleSimilarity(all_results[1], all_results[2]), LAMBDA sim :
            /\ AtLeastThreshold(sim) => Len(ret[1]) = 1
            /\ ~AtLeastThreshold(sim) => Len(ret[1]) = 2
            /\ SameButPunctuationAndCase(all_results[1].title, all_results[2].title)
                    => sim[1] = sim[2] /\ Len(ret[1]) = 1)

\* C16 (as claimed): every record produced by merging two or more input
\* records has at most 5 authors, no two with the same case-insensitive
\* whitespace-normalized name, and has an author when every merged record
\* had one.
C16_MergedAuthorsCapped ==
    (pc = "deduplicated")
    => \A idx \in SUBSET (1..Len(all_results)) :
            (Cardinality(idx) >= 2 /\ \E k \in 1..Len(ret[1]) : ret[1][k] = FoldMerge(all_results, idx))
            => Bind(FoldMerge(all_results, idx).authors, LAMBDA authors :
                    /\ Len(authors) <= AuthorsKept
                    /\ \A a, b \in 1..Len(authors) :
                            a # b => AuthorKey(authors[a]) # AuthorKey(authors[b])
                    /\ (\A i \in idx : all_results[i].authors # <<>>) => authors # <<>>)

\* the normalized titles that started a title group
TitleGroupKeys(results) == MergeByTitle(MergeByDoi(results)[2])[2]

\* C20 (as claimed): a DOI-less record with a usable title that is the
\* first with its normalized title, and whose normalized title is within
\* 0.92 of the normalized title of an earlier DOI-less record, joins a
\* group: its title starts no group.
C20_ComparedWithEveryEarlierTitle ==
    (pc = "deduplicated")
    => \A j \in 1..Len(all_results) :
            (/\ DoiLessWithTitle(all_results[j])
             /\ \E i \in 1..(j-1) :
                    /\ DoiLessWithTitle(all_results[i])
                    /\ AtLeastThreshold(TitleSimilarity(all_results[i], all_results[j]))
             /\ \A i \in 1..(j-1) :
                    DoiLessWithTitle(all_results[i])
                    => _normalize_title(Some(all_results[i].title))
                         # _normalize_title(Some(all_results[j].title)))
            => \A k \in 1..Len(TitleGroupKeys(all_results)) :
                    TitleGroupKeys(all_results)[k] # _normalize_title(Some(all_results[j].title))[1]

\* the one-to-one maps of 1..n onto itself
OrderingsOf(n) == {f \in [1..n -> 1..n] : \A i, j \in 1..n : i # j => f[i] # f[j]}

\* C14: the list _rank_results returns holds the input records, each with
\* its score, in an order in which the scores never increase and records
\* of equal score stand as they stood in the input.
C14_RankedStableDescending ==
    (pc = "ranked")
    => /\ Len(ret[1]) = Len(all_results)
       /\ \E f \in OrderingsOf(Len(all_results)) :
            /\ \A k \in 1..Len(ret[1]) :
                    /\ Unscored(ret[1][k]) = Unscored(all_results[f[k]])
                    /\ ret[1][k].relevance_score = Score(all_results[f[k]], query)
            /\ \A k, l \in 1..Len(ret[1]) :
                    k < l => /\ ret[1][k].relevance_score >= ret[1][l].relevance_score
                             /\ ret[1][k].relevance_score = ret[1][l].relevance_score
                                    => f[k] < f[l]

\* C14 witness: three records were ranked, the first of the input is not
\* the first of the output, and two different records of the output have
\* the same score
C14_Witness ==
    /\ pc = "ranked"
    /\ Len(ret[1]) = 3
    /\ Unscored(ret[1][1]) # Unscored(all_results[1])
    /\ \E k, l \in 1..3 :
            /\ k < l
            /\ ret[1][k].relevance_score = ret[1][l].relevance_score
            /\ Unscored(ret[1][k]) # Unscored(ret[1][l])

\* r and s agree in every field but cited_by_count and relevance_score
SameButCitations(r, s) ==
    [Unscored(r) EXCEPT !.cited_by_count = None] = [Unscored(s) EXCEPT !.cited_by_count = None]

\* C15: of two ranked records that differ in cited_by_count only, the one
\* with more citations scores at least as high; and the citations of a
\* record add between 0 and CitationCap points to its score.
C15_CitationsMonotoneAndCapped ==
    (pc = "ranked")
    => /\ \A k, l \in 1..Len(ret[1]) :
            (/\ SameButCitations(ret[1][k], ret[1][l])
             /\ OrZero(ret[1][k].cited_by_count) >= OrZero(ret[1][l].cited_by_count))
            => ret[1][k].relevance_score >= ret[1][l].relevance_score
       /\ \A k \in 1..Len(ret[1]) :
            Bind(ret[1][k].relevance_score
                    - Score([ret[1][k] EXCEPT !.cited_by_count = None], query),
                 LAMBDA points : 0 <= points /\ points <= 100 * CitationCap)

\* C15 witness: the ranked list holds one record with 10, 150 and 1000
\* citations; more citations gave a higher score from 10 to 150, and the
\* 1000 citations gave exactly CitationCap points
C15_Witness ==
    /\ pc = "ranked"
    /\ \E k, l, m \in 1..Len(ret[1]) :
            /\ SameButCitations(ret[1][k], ret[1][l])
            /\ SameButCitations(ret[1][k], ret[1][m])
            /\ ret[1][k].cited_by_count = Some(1000)
            /\ ret[1][l].cited_by_count = Some(150)
            /\ ret[1][m].cited_by_count = Some(10)
            /\ ret[1][l].relevance_score > ret[1][m].relevance_score
            /\ ret[1][k].relevance_score
                 = Score([ret[1][k] EXCEPT !.cited_by_count = None], query) + 100 * CitationCap

\* C17 (as claimed): enrich_with_oa returns every record that has no DOI,
\* and every record that was open access already, as it was given.
C17_EnrichmentFrame ==
    (pc = "enriched")
    => \A j \in 1..Len(before_enrich) :
            (~Truthy(before_enrich[j].doi) \/ before_enrich[j].is_open_access)
            => all_results[j] = before_enrich[j]

\* the i-th lookup failed: it answered nothing
LookupFailed(i) == outcome[i] = None

\* the lookups of the DOI string of the i-th looked-up record that answered
AnsweredForSameDoi(i) ==
    LET to_check == ResultsToCheck(before_enrich)
    IN  {k \in 1..Len(to_check) :
            /\ outcome[k] # None
            /\ before_enrich[to_check[k]].doi = before_enrich[to_check[i]].doi}

RequestFaulted ==
    IF served.adapter = "OpenAlex" THEN served.answer = Fault
    ELSE \E i \in 1..Len(BioRxivServers) : \E k \in 1..Len(served.answers[i]) :
            /\ served.answers[i][k] = Fault
            /\ \A j \in 1..(k - 1) : served.answers[i][j] # Fault

\* C19 (as claimed): an adapter's search of which a request or the parsing
\* of an answer faulted returns exactly (empty list, 0), whatever it had
\* gathered before the fault.
C19_AdapterFaultReturnsEmpty ==
    (pc = "searched" /\ RequestFaulted) => ret[1] = <<<<>>, 0>>

\* every record of the input list ended in the one record returned
OneGroup == pc = "deduplicated" /\ Len(all_results) >= 2 /\ Len(ret[1]) = 1

\* C21 (as claimed): the merge of the records of a duplicate group does not
\* depend on their order: merging two of them gives the same record either
\* way round, and merging three gives the same record however the merges
\* are nested.
C21_MergeOrderIndependent ==
    OneGroup
    => /\ _merge_results(all_results[1], all_results[2])
            = _merge_results(all_results[2], all_results[1])
       /\ Len(all_results) = 3
            => _merge_results(_merge_results(all_results[1], all_results[2]), all_results[3])
                 = _merge_results(all_results[1], _merge_results(all_results[2], all_results[3]))

\* the id can anchor a merged record
UsableId(r) == r.id # <<>> /\ r.id # Unknown

\* C22 (as claimed): the id of the record a duplicate group is folded into
\* is the id of a record of the group's highest-priority source, when such
\* a record has a usable id.
C22_HighestPriorityAnchors ==
    OneGroup
    => LET top == {i \in 1..Len(all_results) :
                      \A j \in 1..Len(all_results) :
                          _source_priority(all_results[i].source)
                              <= _source_priority(all_results[j].source)}
       IN  (\E i \in top : UsableId(all_results[i]))
           => \E i \in top : UsableId(all_results[i]) /\ ret[1][1].id = all_results[i].id

\* r has no DOI, and no title or a title that is "untitled" once lower-cased,
\* whitespace-collapsed and punctuation-stripped
NoDoiNoTitle(r) ==
    /\ ~Truthy(_normalize_doi(r.doi))
    /\ Strip(RemovePunct(CollapseWs(Lower(r.title)))) \in {<<>>, untitled}

\* C23 (as claimed): a record with neither a DOI nor a usable title is
\* returned as given, once for each time it is in the input.
C23_UntitledPassedThrough ==
    (pc = "deduplicated")
    => \A i \in 1..Len(all_results) :
            NoDoiNoTitle(all_results[i])
            => Cardinality({k \in 1..Len(ret[1]) : ret[1][k] = all_results[i]})
                 = Cardinality({j \in 1..Len(all_results) : all_results[j] = all_results[i]})

\* C25 (as claimed): every record search_all returns has no DOI or a DOI in
\* canonical form: not empty, lower case, without a DOI-URL prefix.
C25_ReturnedDoisCanonical ==
    Returned
    => \A i \in 1..Len(ret[1]) :
            \/ ret[1][i].doi = None
            \/ /\ ret[1][i].doi[1] # <<>>
               /\ ret[1][i].doi[1] = CanonicalDoi(ret[1][i].doi[1])

\* C26: _deduplicate leaves the list it is given, and every record of it,
\* as it was, and every record it returns that is not one of the given
\* records has relevance_score 0.
C26_ReconcileFrame ==
    [][pc = "dedup"
       => /\ all_results' = all_results
          /\ \A k \in 1..Len(ret'[1]) :
                (\A j \in 1..Len(all_results) : ret'[1][k] # all_results[j])
                => ret'[1][k].relevance_score = 0]_vars

\* C26 witness: two records of different sources were merged into a record
\* that is neither of them
C26_Witness ==
    /\ OneGroup
    /\ all_results[1].source # all_results[2].source
    /\ \A j \in 1..Len(all_results) : ret[1][1] # all_results[j]
    /\ ret[1][1].relevance_score = 0

\* C28: every input record of _deduplicate is in exactly one output record:
\* the input positions can be divided among the output records so that each
\* output record is the merge, in list order, of the records at its
\* positions and names the source of each of them.
C28_NoRecordLost ==
    (pc = "deduplicated")
    => \E f \in [1..Len(all_results) -> 1..Len(ret[1])] :
            \A k \in 1..Len(ret[1]) :
                LET idx == {i \in 1..Len(all_results) : f[i] = k}
                IN  /\ idx # {}
                    /\ ret[1][k] = FoldMerge(all_results, idx)
                    /\ \A i \in idx : SourcePieces(all_results[i].source)
                                          \subseteq SourcePieces(ret[1][k].source)

\* C28 witness: of three records, an OpenAlex and a CrossRef record became
\* one record naming both sources and the third was passed through
C28_Witness ==
    /\ pc = "deduplicated"
    /\ Len(all_results) = 3
    /\ Len(ret[1]) = 2
    /\ \E k \in 1..2 : SourcePieces(ret[1][k].source) = {OpenAlexName, CrossRefName}
    /\ \E k \in 1..2 : \E i \in 1..3 : ret[1][k] = all_results[i]

\* C29 (as claimed): no two DOI-less records that _deduplicate returns have
\* the same non-empty normalized title.
C29_OutputTitlesDistinct ==
    (pc = "deduplicated")
    => \A i, j \in 1..Len(ret[1]) :
            (/\ i # j
             /\ DoiLessWithTitle(ret[1][i])
             /\ DoiLessWithTitle(ret[1][j]))
            => _normalize_title(Some(ret[1][i].title)) # _normalize_title(Some(ret[1][j].title))

\* the lookups in flight
Running == {t \in 1..Len(tasks) : tasks[t].state = "running"}

\* C24: at most BatchSize lookups are in flight; while a lookup is in
\* flight every lookup of the batches before its own is done; no lookup is
\* started twice, and when enrich_with_oa returns every record that needed
\* a lookup has had one; a record then differs from what it was only by the
\* answer of a lookup of its own DOI, and does so when its own lookup was
\* answered.
C24_BatchedLookups ==
    /\ Cardinality(Running) <= BatchSize
    /\ \A t \in Running : \A u \in 1..Len(tasks) :
            (u - 1) \div BatchSize < (t - 1) \div BatchSize => tasks[u].state = "done"
    /\ \A t \in 1..Len(tasks) : tasks[t].started <= 1
    /\ (pc = "enriched")
        => LET to_check == ResultsToCheck(before_enrich)
               Applied(i, t) ==
                    /\ served[t] # None
                    /\ before_enrich[to_check[t]].doi = before_enrich[i].doi
                    /\ all_results[i] = [before_enrich[i] EXCEPT
                                            !.is_open_access = served[t][1].is_oa,
                                            !.open_access_url = served[t][1].oa_url]
           IN  /\ \A t \in 1..Len(tasks) : tasks[t].started = 1 /\ tasks[t].state = "done"
               /\ \A i \in 1..Len(all_results) :
                    \/ all_results[i] = before_enrich[i]
                    \/ \E t \in 1..Len(to_check) : Applied(i, t)
               /\ \A t \in 1..Len(to_check) :
                    served[t] # None => \E u \in 1..Len(to_check) : Applied(to_check[t], u)

\* C24 witness: a call that ran two batches, the first of BatchSize lookups,
\* and made a record open access
C24_Witness ==
    /\ pc = "enriched"
    /\ Len(tasks) > BatchSize
    /\ \A t \in 1..Len(tasks) : tasks[t].started = 1
    /\ \E i \in 1..Len(all_results) :
            all_results[i].is_open_access /\ ~before_enrich[i].is_open_access

\* C27 (as claimed): a fetch made less than CACHE_TTL seconds after a
\* successful fetch by any object sends no request, and a fetch made when
\* no object has fetched successfully in the last CACHE_TTL seconds sends
\* one.
C27_CacheSharedWithTtl ==
    (pc = "textbooks" /\ textbooks.last # None)
    => LET call == textbooks.last[1]
           fresh == \E i \in 1..NumInstances :
                        call.before[i] # None /\ call.at - call.before[i][1] < CACHE_TTL
       IN  call.requested = ~fresh

====
